---- MODULE Spec2Model ----
(***************************************************************************)
(* A model of py-vss: the database's item-file cache, the loading of the   *)
(* project tree, the backward walk of the changeset cursors and the fold   *)
(* of the drained actions into changesets.                                 *)
(*                                                                         *)
(* Three specifications share the variables:                               *)
(*   SpecBuild  vss_changeset_history.build over an arbitrary drained      *)
(*              action stream (sort, then fold with vss_change.append);    *)
(*   SpecDb     vss_database.open_records_file, vss_item.__init__,         *)
(*              vss_file_item_file.__init__ and vss_project.__init__ over  *)
(*              a disk on which files may be missing and branch parents    *)
(*              may form cycles;                                           *)
(*   SpecWalk   a repository written by forward VSS operations, loaded,    *)
(*              walked backwards, folded and replayed on a sink.           *)
(***************************************************************************)
EXTENDS Integers, Sequences, FiniteSets, TLC

VARIABLES
    pc,              \* position of the run: which phase of the program is next
    action_list,     \* build: the local list the root cursor is drained into
    changeset_list,  \* vss_changeset_history.changeset_list
    fold_i,          \* build: index of the next action of the fold loop
    disk,            \* the repository's files on disk, by physical name
    now,             \* the clock of the VSS operations that wrote the repository
    record_files_by_physical,  \* vss_database.record_files_by_physical
    objects,         \* every record-file object constructed so far, by object id
    items,           \* every vss_item constructed so far, by item id
    root,            \* the item open_root_project returned, or None
    calls,           \* how many calls were made on the database
    result,          \* the outcome of the last call on the database
    sink             \* the tree the revision action handler holds after the replay

buildVars == <<action_list, changeset_list, fold_i>>
diskVars == <<disk, now>>
dbVars == <<record_files_by_physical, objects, items, root>>
vars == <<pc, action_list, changeset_list, fold_i, disk, now,
          record_files_by_physical, objects, items, root, calls, result, sink>>

----------------------------------------------------------------------------
(* Bounds of SpecBuild *)

\* longest drained action stream
MaxActions == 4
\* timestamps of the stream are 1..MaxStamp
MaxStamp == 2
\* authors, named by their rank in Python's string order
Authors == {1, 2}

\* Python's None in a place that otherwise holds a positive integer (a
\* timestamp, an author rank, a revision number, an item)
None == 0

----------------------------------------------------------------------------
(* Sequences *)

RECURSIVE Reverse(_)
Reverse(s) == IF s = <<>> THEN <<>> ELSE Append(Reverse(Tail(s)), Head(s))

\* list.insert(i, x) with a 0-based index i in 0..len
InsertAt(s, i, x) == SubSeq(s, 1, i) \o <<x>> \o SubSeq(s, i + 1, Len(s))

\* list.pop(i) with a 0-based index i: the list without that element
RemoveAt(s, i) == SubSeq(s, 1, i) \o SubSeq(s, i + 2, Len(s))

RECURSIVE Flatten(_)
Flatten(ss) == IF ss = <<>> THEN <<>> ELSE Head(ss) \o Flatten(Tail(ss))

\* "v = e; F(v)": e is evaluated once and F works on its value
Bind(e, F(_)) == CHOOSE y \in {F(v) : v \in {e}} : TRUE

\* a call followed by more statements: an exception of the call ends them
Try(e, F(_)) == Bind(e, LAMBDA v : IF v.exc # "" THEN v ELSE F(v))

----------------------------------------------------------------------------
(* vss_changeset_history.build: the sort *)

\* the key of a sort that forgets the author
SortKeyTimestampOnly(a) == <<a.timestamp, 0>>

\* key=lambda a: (a.timestamp, a.revision.author)
SortKey(a) == <<a.timestamp, a.author>>

\* Python's tuple comparison k1 <= k2 of two (timestamp, author) keys
KeyLE(k1, k2) == k1[1] < k2[1] \/ (k1[1] = k2[1] /\ k1[2] <= k2[2])

\* one insertion of a stable sort: a goes behind every element whose key is
\* not greater than its own
RECURSIVE InsertSorted(_, _)
InsertSorted(s, a) ==
    IF s = <<>> THEN <<a>>
    ELSE IF KeyLE(SortKey(Head(s)), SortKey(a))
         THEN <<Head(s)>> \o InsertSorted(Tail(s), a)
         ELSE <<a>> \o s

\* list.sort(key=...): stable, ascending
RECURSIVE SortActions(_)
SortActions(s) ==
    IF s = <<>> THEN <<>>
    ELSE InsertSorted(SortActions(SubSeq(s, 1, Len(s) - 1)), s[Len(s)])

----------------------------------------------------------------------------
(* vss_change *)

\* A comment is a sequence of characters; "" is the empty sequence
CR == "\r"
LF == "\n"
Chars == {"a", CR, LF}
\* the characters str.strip() removes
Whitespace == {CR, LF}

\* str.lstrip()
RECURSIVE lstrip(_)
lstrip(s) == IF s # <<>> /\ Head(s) \in Whitespace THEN lstrip(Tail(s)) ELSE s

\* str.rstrip()
RECURSIVE rstrip(_)
rstrip(s) ==
    IF s # <<>> /\ s[Len(s)] \in Whitespace THEN rstrip(SubSeq(s, 1, Len(s) - 1)) ELSE s

\* str.strip()
strip(s) == rstrip(lstrip(s))

\* the rest of s behind its leading run of c
RECURSIVE SkipRun(_, _)
SkipRun(s, c) == IF s # <<>> /\ Head(s) = c THEN SkipRun(Tail(s), c) ELSE s

\* what a match of '\r+\n|\r+' at the head of s leaves: the whole run of CR
\* goes, and one LF behind it goes with it
AfterReturns(s) ==
    Bind(SkipRun(s, CR), LAMBDA r : IF r # <<>> /\ Head(r) = LF THEN Tail(r) ELSE r)

\* re.sub('\r+\n|\r+', '\n', comment)
RECURSIVE sub_returns(_)
sub_returns(s) ==
    IF s = <<>> THEN <<>>
    ELSE IF Head(s) = CR THEN <<LF>> \o sub_returns(AfterReturns(s))
    ELSE <<Head(s)>> \o sub_returns(Tail(s))

\* re.sub('\n\n\n+', '\n\n', comment)
RECURSIVE sub_newlines(_)
sub_newlines(s) ==
    IF s = <<>> THEN <<>>
    ELSE IF Len(s) >= 3 /\ s[1] = LF /\ s[2] = LF /\ s[3] = LF
         THEN <<LF, LF>> \o sub_newlines(SkipRun(s, LF))
    ELSE <<Head(s)>> \o sub_newlines(Tail(s))

\* vss_change.append, lines 68-70: "Normalize line separators"
normalize_comment(comment) == sub_newlines(sub_returns(strip(comment)))

\* vss_change.append, lines 65-72: the loop over comment and label_comment
RECURSIVE append_comments(_, _)
append_comments(comments, new) ==
    IF new = <<>> THEN comments
    ELSE IF Head(new) = <<>> THEN append_comments(comments, Tail(new))
    ELSE Bind(normalize_comment(Head(new)), LAMBDA comment :
            IF comment # <<>> /\ \A i \in 1..Len(comments) : comments[i] # comment
            THEN append_comments(Append(comments, comment), Tail(new))
            ELSE append_comments(comments, Tail(new)))

\* vss_change.__init__
NewChange == [timestamp |-> None, author |-> None, action_list |-> <<>>, comments |-> <<>>]

\* an append that keeps the order of arrival
ChangeAppendAtEnd(change, action) ==
    [timestamp |-> IF change.timestamp = None THEN action.timestamp ELSE change.timestamp,
     author |-> IF change.author = None THEN action.author ELSE change.author,
     action_list |-> Append(change.action_list, action),
     comments |-> append_comments(change.comments, <<action.comment, action.label_comment>>)]

\* vss_change.append: the first action sets timestamp and author, every
\* action goes to the FRONT of action_list (action_list.insert(0, action)),
\* and its comment and label_comment are merged into comments
ChangeAppend(change, action) ==
    [timestamp |-> IF change.timestamp = None THEN action.timestamp ELSE change.timestamp,
     author |-> IF change.author = None THEN action.author ELSE change.author,
     action_list |-> <<action>> \o change.action_list,
     comments |-> append_comments(change.comments, <<action.comment, action.label_comment>>)]

\* a fold that opens a changeset on a change of timestamp only
StartsNewChangeTimestampOnly(cl, action) ==
    \/ cl = <<>>
    \/ cl[Len(cl)].timestamp # action.timestamp

\* build, line 300: change is None, or its timestamp or its author differs
StartsNewChange(cl, action) ==
    \/ cl = <<>>
    \/ cl[Len(cl)].timestamp # action.timestamp
    \/ cl[Len(cl)].author # action.author

\* build, lines 299-303: one iteration of the fold loop
FoldOne(cl, action) ==
    IF StartsNewChange(cl, action)
    THEN Append(cl, ChangeAppend(NewChange, action))
    ELSE [cl EXCEPT ![Len(cl)] = ChangeAppend(cl[Len(cl)], action)]

----------------------------------------------------------------------------
(* Names *)

\* vss_database.RootProjectFile and RootProjectName
RootProjectFile == "AAAAAAAA"
RootProjectName == "$"

\* the physical names of the repository: three projects and three files
ProjectPhys == {"AAAAAAAA", "BAAAAAAA", "FAAAAAAA"}
FilePhys == {"CAAAAAAA", "DAAAAAAA", "EAAAAAAA"}
Phys == ProjectPhys \cup FilePhys

\* the logical names in use
FileNames == {"a", "b", "r"}
ProjectNames == {"p", "q"}
Names == FileNames \cup ProjectNames \cup {RootProjectName}

\* Python's order of the logical names (str comparison by code point)
NameRank(n) ==
    CASE n = "$" -> 0 [] n = "a" -> 1 [] n = "b" -> 2
      [] n = "p" -> 3 [] n = "q" -> 4 [] n = "r" -> 5 [] OTHER -> 6

\* vss_database.get_index_name: the lowercased short name (the names in use
\* are lower case already)
get_index_name(n) == n

\* vss_item_file.get_data_file_name: filename + data_ext
get_data_file_name(filename) ==
    CASE filename = "AAAAAAAA" -> "AAAAAAAA.A"
      [] filename = "BAAAAAAA" -> "BAAAAAAA.A"
      [] filename = "CAAAAAAA" -> "CAAAAAAA.A"
      [] filename = "DAAAAAAA" -> "DAAAAAAA.A"
      [] filename = "EAAAAAAA" -> "EAAAAAAA.A"
      [] OTHER -> "FAAAAAAA.A"

\* vss_full_name
vss_full_name(name, physical, is_project) ==
    [name |-> name, physical_name |-> physical,
     index_name |-> get_index_name(name), is_project |-> is_project]

\* an index that was not set (item_index = None), and find_item's "not found"
NoIndex == -1

----------------------------------------------------------------------------
(* vss_project_item_file: the reconstructed items_array *)

\* find_item_index, lines 351-365: the bisection.  bottom and top are the
\* loop's variables; the result is bottom when the loop ends
RECURSIVE Bisect(_, _, _, _)
Bisect(arr, index_name, bottom, top) ==
    IF bottom = top THEN bottom
    ELSE LET middle == (bottom + top + 1) \div 2
         IN  IF NameRank(index_name) > NameRank(arr[middle].index_name)
             THEN Bisect(arr, index_name, middle, top)
             ELSE IF top = middle THEN bottom
             ELSE Bisect(arr, index_name, bottom, middle)

\* find_item_index, lines 370-381: the scan of the run of equal index names.
\* middle is the 0-based loop index
RECURSIVE ScanRun(_, _, _, _)
ScanRun(arr, full_name, bottom, middle) ==
    IF middle >= Len(arr) THEN bottom
    ELSE IF arr[middle + 1].index_name # full_name.index_name THEN bottom
    ELSE IF arr[middle + 1].physical_name = full_name.physical_name THEN middle
    ELSE ScanRun(arr, full_name, bottom, middle + 1)

\* a find_item_index that does not scan the run of equal index names
find_item_index_without_scan(arr, full_name) ==
    Bisect(arr, full_name.index_name, 0, Len(arr))

\* find_item_index: the 0-based index of the item, or the insertion point
find_item_index(arr, full_name) ==
    Bind(Bisect(arr, full_name.index_name, 0, Len(arr)),
         LAMBDA bottom : ScanRun(arr, full_name, bottom, bottom))

\* find_item: the 0-based index of the item, or -1
find_item(arr, full_name) ==
    Bind(find_item_index(arr, full_name), LAMBDA item_idx :
        IF item_idx >= Len(arr) THEN NoIndex
        ELSE IF /\ arr[item_idx + 1].index_name = full_name.index_name
                /\ arr[item_idx + 1].physical_name = full_name.physical_name
             THEN item_idx
             ELSE NoIndex)

\* add_item: [arr, idx]
add_item(arr, full_name) ==
    Bind(find_item_index(arr, full_name), LAMBDA item_idx :
        [arr |-> InsertAt(arr, item_idx, full_name), idx |-> item_idx])

\* remove_item: [arr, idx]; the array is left alone when the item is not found
remove_item(arr, full_name) ==
    Bind(find_item(arr, full_name), LAMBDA item_idx :
        IF item_idx >= 0 /\ item_idx < Len(arr)
        THEN [arr |-> RemoveAt(arr, item_idx), idx |-> item_idx]
        ELSE [arr |-> arr, idx |-> item_idx])

\* remove_item_by_idx
remove_item_by_idx(arr, item_idx) ==
    IF item_idx >= 0 /\ item_idx < Len(arr) THEN RemoveAt(arr, item_idx) ELSE arr

\* insert_item; list.insert clamps an index beyond the end
insert_item(arr, item_idx, full_name) ==
    InsertAt(arr, IF item_idx > Len(arr) THEN Len(arr) ELSE item_idx, full_name)

----------------------------------------------------------------------------
(* Revisions *)

\* a revision as vss_revision.__init__ and the variants' __init__ build it
\* from its record; item_index is not set yet
Revision(num, action, timestamp, name, physical) ==
    [revision_num |-> num, action |-> action, timestamp |-> timestamp, author |-> 1,
     name |-> name, physical |-> physical,
     old_name |-> "", project_path |-> <<>>,
     pinned_revision |-> 0, unpinned_revision |-> -1, was_deleted |-> FALSE,
     source_physical |-> "", revision_data |-> 0,
     comment |-> <<>>, label_comment |-> <<>>,
     item_index |-> NoIndex, old_item_index |-> NoIndex]

ProjectActions == {"AddProject", "DestroyProject", "DeleteProject", "RecoverProject",
                   "RenameProject", "RestoreProject", "MoveFrom", "MoveTo"}

\* vss_named_revision.full_name
FullNameOf(rev) == vss_full_name(rev.name, rev.physical, rev.action \in ProjectActions)

\* vss_rename_revision.old_full_name
OldFullNameOf(rev) == vss_full_name(rev.old_name, rev.physical, rev.action \in ProjectActions)

\* apply_to_project_items of every revision class: the items_array after
\* the revision, and the revision with the index it recorded
apply_to_project_items(arr, rev) ==
    CASE rev.action \in {"AddProject", "AddFile", "RestoreProject", "RestoreFile", "MoveFrom"} ->
            Bind(add_item(arr, FullNameOf(rev)), LAMBDA r :
                [arr |-> r.arr, rev |-> [rev EXCEPT !.item_index = r.idx]])
      [] rev.action \in {"DeleteProject", "DeleteFile", "RecoverProject", "RecoverFile"} ->
            [arr |-> arr, rev |-> [rev EXCEPT !.item_index = find_item(arr, FullNameOf(rev))]]
      [] rev.action \in {"DestroyProject", "DestroyFile", "MoveTo"} ->
            Bind(remove_item(arr, FullNameOf(rev)), LAMBDA r :
                [arr |-> r.arr, rev |-> [rev EXCEPT !.item_index = r.idx]])
      [] rev.action \in {"RenameProject", "RenameFile"} ->
            Bind(remove_item(arr, OldFullNameOf(rev)), LAMBDA r :
            Bind(add_item(r.arr, FullNameOf(rev)), LAMBDA a :
                [arr |-> a.arr,
                 rev |-> [rev EXCEPT !.old_item_index = r.idx, !.item_index = a.idx]]))
      [] rev.action = "ShareFile" ->
            \* item_index was read from the record's project_idx
            IF rev.unpinned_revision < 0
            THEN [arr |-> insert_item(arr, rev.item_index, FullNameOf(rev)), rev |-> rev]
            ELSE [arr |-> arr, rev |-> rev]
      [] rev.action = "BranchFile" ->
            Bind(find_item(arr, vss_full_name(rev.name, rev.source_physical, FALSE)),
                 LAMBDA idx :
                [arr |-> insert_item(remove_item_by_idx(arr, idx), idx, FullNameOf(rev)),
                 rev |-> [rev EXCEPT !.item_index = idx]])
      [] OTHER -> [arr |-> arr, rev |-> rev]

\* vss_project_item_file.build_revisions, lines 335-336: the revisions are
\* applied in forward order to an empty items_array
RECURSIVE build_project_revisions(_)
build_project_revisions(revs) ==
    IF revs = <<>> THEN [arr |-> <<>>, revs |-> <<>>]
    ELSE Bind(build_project_revisions(SubSeq(revs, 1, Len(revs) - 1)), LAMBDA before :
         Bind(apply_to_project_items(before.arr, revs[Len(revs)]), LAMBDA r :
            [arr |-> r.arr, revs |-> Append(before.revs, r.rev)]))

----------------------------------------------------------------------------
(* The repository on disk, as the VSS operations leave it.                 *)
(* disk[p] is what is stored under physical name p: whether the item file  *)
(* and its sibling data file exist, the item file's revisions (numbered    *)
(* first_revision, first_revision + 1, ...), the header's branch_file and, *)
(* for a project, the entries of the sibling child-entry file.             *)

NoFile ==
    [present |-> FALSE, data_present |-> FALSE, revisions |-> <<>>,
     first_revision |-> 1, branch_file |-> "", entries |-> <<>>]

\* the header's num_revisions: it counts the branch parents' revisions too
NumRevisions(f) == f.first_revision - 1 + Len(f.revisions)

\* the content a checkin of revision n stores in file p
Content(p, n) ==
    n + (CASE p = "CAAAAAAA" -> 10 [] p = "DAAAAAAA" -> 20 [] OTHER -> 30)

\* the entry of child x in project p's entry file, if there is one
HasEntry(dsk, p, x) == \E i \in 1..Len(dsk[p].entries) : dsk[p].entries[i].physical = x
EntryOf(dsk, p, x) ==
    dsk[p].entries[CHOOSE i \in 1..Len(dsk[p].entries) : dsk[p].entries[i].physical = x]

\* the names of the entries of p that are not deleted
ActiveNames(dsk, p) ==
    {dsk[p].entries[i].name : i \in {j \in 1..Len(dsk[p].entries) : ~dsk[p].entries[j].deleted}}

\* the projects that hold an entry of x
Holders(dsk, x) == {p \in ProjectPhys : HasEntry(dsk, p, x)}

\* a project in which VSS can work: the root, or a child of the root that is
\* neither deleted nor destroyed
Live(dsk, p) ==
    \/ p = RootProjectFile
    \/ /\ dsk[p].present
       /\ HasEntry(dsk, RootProjectFile, p)
       /\ ~EntryOf(dsk, RootProjectFile, p).deleted

\* the path of a live project
ProjectPath(dsk, p) ==
    IF p = RootProjectFile THEN <<RootProjectName>>
    ELSE <<RootProjectName, EntryOf(dsk, RootProjectFile, p).name>>

\* the revision gets the next number of file p and is appended
WithRevision(dsk, p, rev) ==
    [dsk EXCEPT ![p].revisions =
        Append(@, [rev EXCEPT !.revision_num = NumRevisions(dsk[p]) + 1])]

\* the entry file of p after its revisions changed: one entry per item of
\* the items_array, in its order; attr gives each child's flags
WithEntries(dsk, p, attr) ==
    Bind(build_project_revisions(dsk[p].revisions).arr, LAMBDA arr :
        [dsk EXCEPT ![p].entries =
            [i \in 1..Len(arr) |->
                [name |-> arr[i].name, physical |-> arr[i].physical_name,
                 is_project |-> arr[i].is_project,
                 deleted |-> attr[arr[i].physical_name].deleted,
                 pinned_version |-> attr[arr[i].physical_name].pinned_version]]])

\* the flags of the children of p as its entry file has them
Attr(dsk, p) ==
    [x \in Phys |->
        IF HasEntry(dsk, p, x)
        THEN [deleted |-> EntryOf(dsk, p, x).deleted,
              pinned_version |-> EntryOf(dsk, p, x).pinned_version]
        ELSE [deleted |-> FALSE, pinned_version |-> 0]]

\* project p gets one more revision; its entries follow, child x with flags a
Logged(dsk, p, rev, x, a) ==
    LET d1 == WithRevision(dsk, p, rev)
    IN  WithEntries(d1, p, [Attr(dsk, p) EXCEPT ![x] = a])

Plain == [deleted |-> FALSE, pinned_version |-> 0]

\* the repository right after its creation at time 1: the root project alone
NewRepository ==
    [p \in Phys |->
        IF p = RootProjectFile
        THEN [NoFile EXCEPT !.present = TRUE, !.data_present = TRUE,
                            !.revisions = <<Revision(1, "CreateProject", 1,
                                                     RootProjectName, RootProjectFile)>>]
        ELSE NoFile]

\* Add a new project x under the name n to the root
DoAddProject(dsk, t, x, n) ==
    LET d1 == [dsk EXCEPT ![x] = [NoFile EXCEPT !.present = TRUE, !.data_present = TRUE,
                                   !.revisions = <<Revision(1, "CreateProject", t, n, x)>>]]
    IN  Logged(d1, RootProjectFile, Revision(0, "AddProject", t, n, x), x, Plain)

\* Add a new file x under the name n to project p
DoAddFile(dsk, t, p, x, n) ==
    LET d1 == [dsk EXCEPT ![x] = [NoFile EXCEPT !.present = TRUE, !.data_present = TRUE,
                 !.revisions = <<[Revision(1, "CreateFile", t, n, x)
                                    EXCEPT !.revision_data = Content(x, 1)]>>]]
    IN  Logged(d1, p, Revision(0, "AddFile", t, n, x), x, Plain)

\* Check in file x
DoCheckin(dsk, t, x) ==
    WithRevision(dsk, x, [Revision(0, "CheckinFile", t, "", "")
                            EXCEPT !.revision_data = Content(x, NumRevisions(dsk[x]) + 1)])

\* Rename child x to n: every project that holds x records the rename, the
\* ones in which x is deleted too
RECURSIVE RenameIn(_, _, _, _, _)
RenameIn(dsk, t, ps, x, n) ==
    IF ps = {} THEN dsk
    ELSE LET p == CHOOSE q \in ps : TRUE
             rev == [Revision(0, IF x \in ProjectPhys THEN "RenameProject" ELSE "RenameFile",
                              t, n, x)
                       EXCEPT !.old_name = EntryOf(dsk, p, x).name]
         IN  RenameIn(Logged(dsk, p, rev, x, Attr(dsk, p)[x]), t, ps \ {p}, x, n)

DoRename(dsk, t, x, n) == RenameIn(dsk, t, Holders(dsk, x), x, n)

\* Delete child x of project p
DoDelete(dsk, t, p, x) ==
    Logged(dsk, p,
           Revision(0, IF x \in ProjectPhys THEN "DeleteProject" ELSE "DeleteFile",
                    t, EntryOf(dsk, p, x).name, x),
           x, [Attr(dsk, p)[x] EXCEPT !.deleted = TRUE])

\* Recover the deleted child x of project p
DoRecover(dsk, t, p, x) ==
    Logged(dsk, p,
           Revision(0, IF x \in ProjectPhys THEN "RecoverProject" ELSE "RecoverFile",
                    t, EntryOf(dsk, p, x).name, x),
           x, [Attr(dsk, p)[x] EXCEPT !.deleted = FALSE])

\* Share file x of project p into project q.  The record stores the index
\* at which the new entry went into q's items
DoShare(dsk, t, p, q, x) ==
    LET n == EntryOf(dsk, p, x).name
        arr == build_project_revisions(dsk[q].revisions).arr
        rev == [Revision(0, "ShareFile", t, n, x)
                  EXCEPT !.project_path = ProjectPath(dsk, p),
                         !.item_index = find_item_index(arr, vss_full_name(n, x, FALSE)),
                         !.unpinned_revision = -1]
    IN  Logged(dsk, q, rev, x, Plain)

\* Pin file x in project q at its latest revision
DoPin(dsk, t, q, x) ==
    LET arr == build_project_revisions(dsk[q].revisions).arr
        n == EntryOf(dsk, q, x).name
        rev == [Revision(0, "ShareFile", t, n, x)
                  EXCEPT !.project_path = ProjectPath(dsk, q),
                         !.item_index = find_item(arr, vss_full_name(n, x, FALSE)),
                         !.pinned_revision = NumRevisions(dsk[x]),
                         !.unpinned_revision = 0]
    IN  Logged(dsk, q, rev, x,
               [Attr(dsk, q)[x] EXCEPT !.pinned_version = NumRevisions(dsk[x])])

\* Unpin file x in project q
DoUnpin(dsk, t, q, x) ==
    LET arr == build_project_revisions(dsk[q].revisions).arr
        n == EntryOf(dsk, q, x).name
        rev == [Revision(0, "ShareFile", t, n, x)
                  EXCEPT !.project_path = ProjectPath(dsk, q),
                         !.item_index = find_item(arr, vss_full_name(n, x, FALSE)),
                         !.pinned_revision = 0,
                         !.unpinned_revision = EntryOf(dsk, q, x).pinned_version]
    IN  Logged(dsk, q, rev, x, [Attr(dsk, q)[x] EXCEPT !.pinned_version = 0])

\* the files of the database that no project's entry file names any more
\* are purged: a destroyed project with what only it held, a destroyed file
RECURSIVE Purged(_)
Purged(dsk) ==
    LET kept == {RootProjectFile} \cup
                UNION {{dsk[p].entries[i].physical : i \in 1..Len(dsk[p].entries)} :
                       p \in {q \in ProjectPhys : dsk[q].present}}
        gone == {x \in Phys : dsk[x].present /\ x \notin kept}
    IN  IF gone = {} THEN dsk
        ELSE Purged([x \in Phys |->
                        IF x \in gone
                        THEN [dsk[x] EXCEPT !.present = FALSE, !.data_present = FALSE]
                        ELSE dsk[x]])

\* Destroy child x of project p for good
DoDestroy(dsk, t, p, x) ==
    LET e == EntryOf(dsk, p, x)
        rev == [Revision(0, IF x \in ProjectPhys THEN "DestroyProject" ELSE "DestroyFile",
                         t, e.name, x)
                  EXCEPT !.was_deleted = e.deleted]
    IN  Purged(Logged(dsk, p, rev, x, Plain))

----------------------------------------------------------------------------
(* vss_database: the files and the cache of record files                   *)
(* The operators below thread one record w through the calls:              *)
(*   w.cache    record_files_by_physical                                   *)
(*   w.objects  every record-file object whose construction began          *)
(*   w.items    every vss_item object whose construction began             *)
(*   w.exc      the exception in flight ("" when there is none)            *)
(*   w.ret      the value the last call returned                           *)
(*   w.act      the action the last get_next_revision_action returned      *)

\* the marker open_records_file leaves in a slot while its file is loading
NotImplemented == -1

VssFileNotFoundException == "VssFileNotFoundException"

Raise(w, e) == [w EXCEPT !.exc = e]

\* open_data_file: TRUE when the file opens, FALSE when it raises
DataOwner(name) == CHOOSE p \in Phys : get_data_file_name(p) = name
open_data_file(name) ==
    IF name \in Phys THEN disk[name].present ELSE disk[DataOwner(name)].data_present

\* a record-file object when its constructor starts
NewRecordFile(filename, cls) ==
    [filename |-> filename, cls |-> cls, loaded |-> FALSE,
     revisions |-> <<>>, items_array |-> <<>>,
     first_revision |-> 1, num_revisions |-> 0, branch_parent |-> None]

\* vss_record_file.__init__: the object exists, then the file is opened
vss_record_file_init(w, filename, cls) ==
    Bind([w EXCEPT !.objects = Append(@, NewRecordFile(filename, cls)),
                   !.ret = Len(w.objects) + 1],
         LAMBDA w1 : IF open_data_file(filename) THEN w1
                     ELSE Raise(w1, VssFileNotFoundException))

\* the entry file of a project: a plain vss_record_file
vss_entry_file_init(w, filename) ==
    Try(vss_record_file_init(w, filename, "record"),
        LAMBDA w1 : [w1 EXCEPT !.objects[w1.ret].loaded = TRUE])

\* vss_project_item_file.__init__ with build_revisions
vss_project_item_file_init(w, filename) ==
    Try(vss_record_file_init(w, filename, "project"), LAMBDA w1 :
    Bind(build_project_revisions(disk[filename].revisions), LAMBDA b :
        [w1 EXCEPT !.objects[w1.ret] =
            [@ EXCEPT !.num_revisions = NumRevisions(disk[filename]),
                      !.revisions = b.revs, !.items_array = b.arr,
                      !.loaded = TRUE]]))

RECURSIVE open_records_file(_, _, _)
RECURSIVE load_records_file(_, _, _)

\* vss_file_item_file.__init__: the payload, the branch parent, the revisions
vss_file_item_file_init(w, filename) ==
    Try(vss_record_file_init(w, filename, "file"), LAMBDA w1 :
        IF ~open_data_file(get_data_file_name(filename))
        THEN Raise(w1, VssFileNotFoundException)
        ELSE Try(IF disk[filename].branch_file # ""
                 THEN open_records_file(w1, "file", disk[filename].branch_file)
                 ELSE [w1 EXCEPT !.ret = None],
                 LAMBDA w3 :
                    [w3 EXCEPT !.objects[w1.ret] =
                        [@ EXCEPT !.first_revision = disk[filename].first_revision,
                                  !.num_revisions = NumRevisions(disk[filename]),
                                  !.branch_parent = w3.ret,
                                  !.revisions = disk[filename].revisions,
                                  !.loaded = TRUE],
                               !.ret = w1.ret]))

\* open_records_file from the marker on: mark the slot, construct, store
load_records_file(w, file_class, physical_name) ==
    Try(Bind([w EXCEPT !.cache[physical_name] = NotImplemented], LAMBDA w1 :
            CASE file_class = "project" -> vss_project_item_file_init(w1, physical_name)
              [] file_class = "file" -> vss_file_item_file_init(w1, physical_name)
              [] OTHER -> vss_entry_file_init(w1, physical_name)),
        LAMBDA w2 : [w2 EXCEPT !.cache[physical_name] = w2.ret])

\* the same without the look at a loaded slot
open_records_file_always_loads(w, file_class, physical_name) ==
    IF w.cache[physical_name] = NotImplemented
    THEN Raise(w, VssFileNotFoundException)
    ELSE load_records_file(w, file_class, physical_name)

open_records_file(w, file_class, physical_name) ==
    IF w.cache[physical_name] = NotImplemented THEN Raise(w, VssFileNotFoundException)
    ELSE IF w.cache[physical_name] # None THEN [w EXCEPT !.ret = w.cache[physical_name]]
    ELSE load_records_file(w, file_class, physical_name)

\* a reference to a revision of a loaded file; NoRev is None, and
\* OutOfRange stands for the ArgumentOutOfRangeException
NoRev == [file |-> 0, idx |-> 0]
OutOfRange == [file |-> -1, idx |-> 0]

\* vss_project_item_file.get_revision and vss_file_item_file.get_revision
RECURSIVE get_revision(_, _, _)
get_revision(objs, f, version) ==
    IF objs[f].cls = "project"
    THEN IF version < 1 \/ version > objs[f].num_revisions THEN OutOfRange
         ELSE IF objs[f].revisions = <<>> THEN NoRev
         ELSE [file |-> f, idx |-> version]
    ELSE IF objs[f].revisions = <<>> THEN NoRev
         ELSE IF version < 1 \/ version > objs[f].num_revisions THEN OutOfRange
         ELSE IF version >= objs[f].first_revision
              THEN [file |-> f, idx |-> version - objs[f].first_revision + 1]
         ELSE IF objs[f].branch_parent = None \/ objs[f].branch_parent = NotImplemented
              THEN NoRev
         ELSE get_revision(objs, objs[f].branch_parent, version)

\* the revision a reference names
RevOf(objs, ref) == objs[ref.file].revisions[ref.idx]

----------------------------------------------------------------------------
(* vss_item, vss_file, vss_project and the changeset cursors               *)

\* start_timestamp=0xFFFFFFFF, the default of insert_new_item: later than every
\* timestamp (the largest number the checker has stands for it)
NoTimestampLimit == 2147483647

\* an item object when its constructor starts.  cursor tells the classes
\* vss_file_changeset_item / vss_directory_changeset_item from the plain
\* vss_file / vss_project, whose cursor fields stay unused
NewItem(physical_name, logical_name, is_project, deleted, pinned_version, cursor) ==
    [physical_name |-> physical_name, logical_name |-> logical_name,
     is_project |-> is_project, deleted |-> deleted,
     pinned_version |-> pinned_version, cursor |-> cursor,
     parent |-> None, item_file |-> None,
     items_array |-> <<>>, items_by_logical_name |-> [n \in Names |-> None],
     pending_child_items |-> <<>>,
     next_revision |-> NoRev, next_revision_num |-> 0]

\* a Python index into a list of length n: negative ones count from the end
PyIndex(n, idx) == IF idx < 0 THEN n + idx ELSE idx

\* vss_item.__init__: a missing file leaves item_file None; w.ret is the item
vss_item_init(w, file_class, item) ==
    Bind(open_records_file([w EXCEPT !.items = Append(@, item)], file_class,
                           item.physical_name),
         LAMBDA w2 :
            IF w2.exc = VssFileNotFoundException
            THEN [w2 EXCEPT !.exc = "", !.ret = Len(w.items) + 1]
            ELSE IF w2.exc # "" THEN w2
            ELSE [w2 EXCEPT !.items[Len(w.items) + 1].item_file = w2.ret,
                            !.ret = Len(w.items) + 1])

\* the cursor part of vss_file_changeset_item.__init__ and of
\* vss_directory_changeset_item.__init__: start at the last revision
cursor_start(w, h) ==
    Bind(get_revision(w.objects, w.items[h].item_file,
                      w.objects[w.items[h].item_file].num_revisions),
         LAMBDA r :
            IF r = OutOfRange THEN Raise(w, "ArgumentOutOfRangeException")
            ELSE [w EXCEPT !.items[h].next_revision = r,
                           !.items[h].next_revision_num =
                               w.objects[w.items[h].item_file].num_revisions - 1])

\* vss_file.__init__ and vss_file_changeset_item.__init__
vss_file_init(w, cursor, physical_name, logical_name, deleted, pinned_version) ==
    Try(vss_item_init(w, "file",
            NewItem(physical_name, logical_name, FALSE, deleted, pinned_version, cursor)),
        LAMBDA w1 :
            IF cursor /\ w1.items[w1.ret].item_file # None
            THEN [cursor_start(w1, w1.ret) EXCEPT !.ret = w1.ret]
            ELSE w1)

\* get_next_revision_timestamp of either cursor; None when there is none
get_next_revision_timestamp(w, i) ==
    IF w.items[i].is_project
    THEN IF w.items[i].pending_child_items # <<>>
         THEN w.items[i].pending_child_items[Len(w.items[i].pending_child_items)].timestamp
         ELSE None
    ELSE IF w.items[i].next_revision # NoRev
         THEN RevOf(w.objects, w.items[i].next_revision).timestamp
         ELSE None

\* the loop of insert_pending_item: the Python index at which to insert
RECURSIVE pending_position(_, _, _, _, _)
pending_position(w, h, item, timestamp, i) ==
    IF i = 0 THEN 0
    ELSE IF timestamp > w.items[h].pending_child_items[i].timestamp THEN i
    ELSE IF item = h \/ timestamp < w.items[h].pending_child_items[i].timestamp
         THEN pending_position(w, h, item, timestamp, i - 1)
    ELSE IF NameRank(w.items[item].logical_name)
               > NameRank(w.items[w.items[h].pending_child_items[i].item].logical_name)
         THEN i
    ELSE pending_position(w, h, item, timestamp, i - 1)

\* the end of insert_pending_item: the first revision of the directory is
\* held back until the revisions of the children are drained
hold_create_project(w, h) ==
    IF /\ w.items[h].next_revision # NoRev
       /\ RevOf(w.objects, w.items[h].next_revision).revision_num = 1
       /\ Len(w.items[h].pending_child_items) > 1
       /\ w.items[h].pending_child_items[Len(w.items[h].pending_child_items)].item = h
    THEN [w EXCEPT
            !.objects[w.items[h].next_revision.file]
                .revisions[w.items[h].next_revision.idx].timestamp =
                    w.items[h].pending_child_items[1].timestamp,
            !.items[h].pending_child_items =
                <<[timestamp |-> @[1].timestamp, item |-> h]>> \o SubSeq(@, 1, Len(@) - 1)]
    ELSE w

\* vss_directory_changeset_item.insert_pending_item
insert_pending_item(w, h, item) ==
    IF \/ item = None
       \/ item # h /\ w.items[item].deleted
       \/ item # h /\ get_next_revision_timestamp(w, item) = None
       \/ item = h /\ w.items[h].next_revision = NoRev
    THEN w
    ELSE Bind(IF item # h THEN get_next_revision_timestamp(w, item)
              ELSE RevOf(w.objects, w.items[h].next_revision).timestamp,
              LAMBDA timestamp :
                 hold_create_project(
                    [w EXCEPT !.items[h].pending_child_items =
                        InsertAt(@, pending_position(w, h, item, timestamp, Len(@)),
                                 [timestamp |-> timestamp, item |-> item])], h))

\* vss_directory_changeset_item.remove_pending_item: the first entry of item
remove_pending_item(w, h, item) ==
    Bind({i \in 1..Len(w.items[h].pending_child_items) :
             w.items[h].pending_child_items[i].item = item},
         LAMBDA at :
            IF at = {} THEN w
            ELSE [w EXCEPT !.items[h].pending_child_items =
                     RemoveAt(@, (CHOOSE i \in at : \A j \in at : i <= j) - 1)])

\* the AssertionError of insert_item_by_idx (the name is mapped already) and
\* the one of remove_item_by_index (the name is not mapped to the child)
NameIsMapped == "AssertionError in insert_item_by_idx"
NameIsNotMapped == "AssertionError in remove_item_by_index"

\* vss_project.insert_item_by_idx
insert_item_by_idx(w, h, item, item_idx) ==
    IF /\ item_idx >= 0 /\ item_idx < Len(w.items[h].items_array)
       /\ w.items[h].items_array[item_idx + 1] = item
    THEN [w EXCEPT !.ret = item_idx]
    ELSE Bind([w EXCEPT !.items[item].parent = h,
                        !.items[h].items_array =
                            InsertAt(@, IF item_idx > Len(@) THEN Len(@)
                                        ELSE IF item_idx >= 0 THEN item_idx
                                        ELSE IF Len(@) + item_idx < 0 THEN 0
                                        ELSE Len(@) + item_idx,
                                     item),
                        !.ret = item_idx],
              LAMBDA w1 :
                 IF w.items[item].deleted THEN w1
                 ELSE IF w.items[h].items_by_logical_name[w.items[item].logical_name] # None
                      THEN Raise(w1, NameIsMapped)
                 ELSE [w1 EXCEPT
                         !.items[h].items_by_logical_name[w.items[item].logical_name] = item])

\* vss_project.remove_item_by_index; w.ret is the item, or None
remove_item_by_index(w, h, item_idx, remove_from_directory) ==
    IF item_idx >= Len(w.items[h].items_array) THEN [w EXCEPT !.ret = None]
    ELSE IF PyIndex(Len(w.items[h].items_array), item_idx) < 0 THEN Raise(w, "IndexError")
    ELSE Bind(w.items[h].items_array[PyIndex(Len(w.items[h].items_array), item_idx) + 1],
              LAMBDA item :
       Bind([w EXCEPT !.items[h].items_array = RemoveAt(@, PyIndex(Len(@), item_idx)),
                      !.ret = item],
            LAMBDA w1 :
               IF w.items[item].deleted THEN w1
               ELSE IF remove_from_directory \/ w.items[item].item_file = None
                    THEN IF w.items[h].items_by_logical_name[w.items[item].logical_name] # item
                         THEN Raise(w1, NameIsNotMapped)
                         ELSE [w1 EXCEPT !.items[h].items_by_logical_name[
                                             w.items[item].logical_name] = None]
               ELSE w1))

\* a remove_from_directory that leaves the name in the map
remove_from_directory_keeps_name(w, h, item) ==
    IF w.items[h].items_by_logical_name[w.items[item].logical_name] = None
    THEN Raise(w, "KeyError")
    ELSE w

\* vss_project.remove_from_directory: dict.pop of the item's name
remove_from_directory(w, h, item) ==
    IF w.items[h].items_by_logical_name[w.items[item].logical_name] = None
    THEN Raise(w, "KeyError")
    ELSE [w EXCEPT !.items[h].items_by_logical_name[w.items[item].logical_name] = None]

\* a get_item_by_index that takes the first child whatever the index
get_item_by_index_first(w, h, item_idx) ==
    IF w.items[h].items_array = <<>> THEN None ELSE w.items[h].items_array[1]

\* vss_project.get_item_by_index
get_item_by_index(w, h, item_idx) ==
    IF \/ item_idx >= Len(w.items[h].items_array)
       \/ PyIndex(Len(w.items[h].items_array), item_idx) < 0
    THEN None
    ELSE w.items[h].items_array[PyIndex(Len(w.items[h].items_array), item_idx) + 1]

----------------------------------------------------------------------------
(* Loading a project tree, and the insertion of a child                    *)

RECURSIVE vss_project_init(_, _, _, _, _)
RECURSIVE get_next_revision_action(_, _, _)

\* the loop "while timestamp < item.get_next_revision_timestamp():
\*               item.get_next_revision_action('')"
\* of insert_new_item, unset_item_deleted and unset_item_pinned
RECURSIVE flush_revisions(_, _, _)
flush_revisions(w, item, timestamp) ==
    IF get_next_revision_timestamp(w, item) = None THEN Raise(w, "TypeError")
    ELSE IF ~(timestamp < get_next_revision_timestamp(w, item)) THEN w
    ELSE Try(get_next_revision_action(w, item, <<>>),
             LAMBDA w1 : flush_revisions(w1, item, timestamp))

\* vss_project.open_new_item.  The children of a cursor are cursors
\* (file_item_type of vss_directory_changeset_item), those of a plain
\* vss_project are plain
open_new_item(w, cursor, physical_name, logical_name, is_project, deleted, pinned_version) ==
    IF is_project
    THEN vss_project_init(w, cursor, physical_name, logical_name, deleted)
    ELSE vss_file_init(w, cursor, physical_name, logical_name, deleted, pinned_version)

\* vss_project.insert_new_item, and for a cursor
\* vss_directory_changeset_item.insert_new_item around it; w.ret is the item
insert_new_item(w, h, physical_name, logical_name, is_project, deleted, pinned_version, start_timestamp, item_idx) ==
    Try(open_new_item(w, w.items[h].cursor, physical_name, logical_name, is_project,
                      deleted, pinned_version),
        LAMBDA w1 :
    Try(insert_item_by_idx(w1, h, w1.ret,
            IF item_idx = NoIndex THEN Len(w1.items[h].items_array) ELSE item_idx),
        LAMBDA w2 :
            IF \/ ~w.items[h].cursor
               \/ pinned_version > 0
               \/ w2.items[w1.ret].item_file = None
            THEN [w2 EXCEPT !.ret = w1.ret]
            ELSE Try(flush_revisions(w2, w1.ret, start_timestamp),
                     LAMBDA w3 : [insert_pending_item(w3, h, w1.ret) EXCEPT !.ret = w1.ret])))

\* one entry of the entry file in vss_project.__init__
load_entry(w, h, entry) ==
    Bind(find_item(w.objects[w.items[h].item_file].items_array,
                   vss_full_name(entry.name, entry.physical, entry.is_project)),
         LAMBDA item_index :
    Bind(PyIndex(Len(w.items[h].items_array), item_index), LAMBDA at :
        IF entry.is_project /\ entry.pinned_version # 0 THEN Raise(w, "AssertionError")
        ELSE IF at < 0 \/ at >= Len(w.items[h].items_array) THEN Raise(w, "IndexError")
        ELSE IF w.items[h].items_array[at + 1] # None THEN Raise(w, "AssertionError")
        ELSE insert_new_item([w EXCEPT !.items[h].items_array = RemoveAt(@, at)], h,
                             entry.physical, entry.name, entry.is_project, entry.deleted,
                             entry.pinned_version, NoTimestampLimit, item_index)))

\* the loop of vss_project.__init__ over the records of the entry file
RECURSIVE load_entries(_, _, _, _)
load_entries(w, h, entries, k) ==
    IF k > Len(entries) THEN w
    ELSE Try(load_entry(w, h, entries[k]),
             LAMBDA w2 : load_entries(w2, h, entries, k + 1))

\* vss_project.__init__ (recursive=True) and, for a cursor,
\* vss_directory_changeset_item.__init__ around it; w.ret is the item
vss_project_init(w, cursor, physical_name, logical_name, deleted) ==
    Try(vss_item_init(w, "project",
            NewItem(physical_name, logical_name, TRUE, deleted, 0, cursor)),
        LAMBDA w1 :
            IF w1.items[w1.ret].item_file = None THEN w1
            ELSE
    Try(open_records_file(w1, "record", get_data_file_name(physical_name)),
        LAMBDA w2 :
    Try(load_entries(
            [w2 EXCEPT !.items[w1.ret].items_array =
                [i \in 1..Len(w2.objects[w1.items[w1.ret].item_file].items_array) |-> None]],
            w1.ret, disk[physical_name].entries, 1),
        LAMBDA w4 :
            IF ~cursor THEN [w4 EXCEPT !.ret = w1.ret]
            ELSE Try(cursor_start(w4, w1.ret),
                     LAMBDA w5 : [insert_pending_item(w5, w1.ret, w1.ret)
                                    EXCEPT !.ret = w1.ret]))))

----------------------------------------------------------------------------
(* vss_action: the actions and their apply_to_item_backwards               *)

\* no action (get_next_revision_action returned None, or nothing yet)
NoAction == [kind |-> "None"]

\* create_share_action: the class a ShareFile revision gets
create_share_action(revision) ==
    IF revision.unpinned_revision = 0 THEN "Pin"
    ELSE IF revision.unpinned_revision > 0 THEN "Unpin"
    ELSE "Share"

\* vss_action.__init__ with the __init__ of the subclasses.  perform tells
\* whether perform_revision_action is still the one of the action's class
\* (FALSE once it was replaced by the base class's, which does nothing)
Action(kind, revision, base_path, logical_name) ==
    [kind |-> kind, id |-> 0,
     project_action |-> kind \in {"AddProject", "DeleteProject", "RecoverProject",
                                  "DestroyProject", "RenameProject", "CreateProject",
                                  "RestoreProject"},
     timestamp |-> revision.timestamp, author |-> revision.author,
     comment |-> revision.comment, label_comment |-> revision.label_comment,
     logical_name |-> logical_name, base_path |-> base_path,
     pathname |-> IF logical_name = "" THEN base_path ELSE Append(base_path, logical_name),
     physical_name |-> revision.physical,
     item_index |-> revision.item_index, old_item_index |-> revision.old_item_index,
     original_name |-> revision.old_name,
     original_pathname |->
         IF kind = "Share" THEN Append(revision.project_path, logical_name)
         ELSE IF kind \in {"RenameFile", "RenameProject"}
              THEN Append(base_path, revision.old_name)
         ELSE <<>>,
     original_project |-> revision.project_path,
     was_deleted |-> revision.was_deleted,
     pinned_revision |-> revision.pinned_revision,
     unpinned_revision |-> revision.unpinned_revision,
     data |-> IF kind \in {"CheckinFile", "CreateBranch", "CreateFile"}
              THEN revision.revision_data ELSE None,
     tree_list |-> <<>>, errors |-> <<>>, perform |-> TRUE]

add_error_string(a, error_str) == [a EXCEPT !.errors = Append(@, error_str)]

\* "self.perform_revision_action = super().perform_revision_action"
no_perform(a) == [a EXCEPT !.perform = FALSE]

\* the AssertionError that the assert of assert_valid_item raises
InvalidItem == "AssertionError in assert_valid_item"

\* named_action.assert_valid_item
assert_valid_item(w, a, item, name) ==
    /\ item # None
    /\ w.items[item].physical_name = a.physical_name
    /\ w.items[item].logical_name = name

\* get_next_revision_data of a file cursor; it raises when next_revision is None
HasNextRevision(w, item) == ~w.items[item].is_project /\ w.items[item].next_revision # NoRev
get_next_revision_data(w, item) == RevOf(w.objects, w.items[item].next_revision).revision_data

\* vss_file_item_file.get_revision_data
get_revision_data(objs, f, version) ==
    Bind(get_revision(objs, f, version),
         LAMBDA revision : IF revision = NoRev THEN None
                           ELSE RevOf(objs, revision).revision_data)

\* vss_item.make_full_path, as the sequence of the names on the path
RECURSIVE make_full_path(_, _)
make_full_path(w, item) ==
    IF item = None THEN <<>>
    ELSE Append(make_full_path(w, w.items[item].parent), w.items[item].logical_name)

\* vss_project.find_by_path_name; None when nothing is found
RECURSIVE TopOf(_, _)
TopOf(w, item) == IF w.items[item].parent = None THEN item ELSE TopOf(w, w.items[item].parent)

RECURSIVE descend(_, _, _)
descend(w, item, name_parts) ==
    IF name_parts = <<>> THEN item
    ELSE IF w.items[item].items_by_logical_name[Head(name_parts)] = None THEN None
    ELSE IF ~w.items[w.items[item].items_by_logical_name[Head(name_parts)]].is_project
         THEN IF Tail(name_parts) = <<>>
              THEN w.items[item].items_by_logical_name[Head(name_parts)]
              ELSE None
    ELSE descend(w, w.items[item].items_by_logical_name[Head(name_parts)], Tail(name_parts))

find_by_path_name(w, h, full_name) ==
    Bind(TopOf(w, h), LAMBDA top :
        IF full_name = <<>> \/ Head(full_name) # w.items[top].logical_name
        THEN Raise(w, "AssertionError")
        ELSE [w EXCEPT !.ret = descend(w, top, Tail(full_name))])

\* vss_project.set_item_deleted, which vss_directory_changeset_item extends:
\* the child at the index is marked deleted and leaves the map of the
\* active names; w.ret is the child
project_set_item_deleted(w, h, item_idx) ==
    Bind(get_item_by_index(w, h, item_idx), LAMBDA item :
        IF item = None THEN [w EXCEPT !.ret = None]
        ELSE [w EXCEPT !.items[item].deleted = TRUE,
                       !.items[h].items_by_logical_name[w.items[item].logical_name] =
                           IF @ = item THEN None ELSE @,
                       !.ret = item])

\* vss_project.unset_item_deleted: the child at the index is active again
\* and is back in the map of the active names; w.ret is the child
project_unset_item_deleted(w, h, item_idx) ==
    Bind(get_item_by_index(w, h, item_idx), LAMBDA item :
        IF item = None THEN [w EXCEPT !.ret = None]
        ELSE [w EXCEPT !.items[item].deleted = FALSE,
                       !.items[h].items_by_logical_name[w.items[item].logical_name] = item,
                       !.ret = item])

\* vss_directory_changeset_item.set_item_deleted
set_item_deleted(w, h, item_idx) ==
    Bind(project_set_item_deleted(w, h, item_idx),
         LAMBDA w1 : [remove_pending_item(w1, h, w1.ret) EXCEPT !.ret = w1.ret])

\* the end of unset_item_deleted and of unset_item_pinned: the revisions
\* later than timestamp are skipped and the item is pending again
back_to_pending(w, h, item, timestamp) ==
    IF item = None THEN Raise(w, "AttributeError")
    ELSE IF w.items[item].item_file = None THEN [w EXCEPT !.ret = item]
    ELSE Try(flush_revisions(w, item, timestamp),
             LAMBDA w2 : [insert_pending_item(w2, h, item) EXCEPT !.ret = item])

\* vss_directory_changeset_item.unset_item_deleted
unset_item_deleted(w, h, item_idx, timestamp) ==
    Bind(project_unset_item_deleted(w, h, item_idx),
         LAMBDA w1 : back_to_pending(w1, h, w1.ret, timestamp))

\* vss_directory_changeset_item.set_item_pinned
set_item_pinned(w, h, item_idx, pinned_revision) ==
    Bind(get_item_by_index(w, h, item_idx),
         LAMBDA item : [remove_pending_item(w, h, item) EXCEPT !.ret = item])

\* vss_directory_changeset_item.unset_item_pinned
unset_item_pinned(w, h, item_idx, timestamp) ==
    back_to_pending(w, h, get_item_by_index(w, h, item_idx), timestamp)

\* the result of a backward apply: the action as it is now
Done(w, a) == [w EXCEPT !.act = a]

\* add_item_action.apply_to_item_backwards
add_item_backwards(w, a, h) ==
    Try(remove_item_by_index(w, h, a.item_index, FALSE), LAMBDA w1 :
        IF ~assert_valid_item(w1, a, w1.ret, a.logical_name) THEN Raise(w1, InvalidItem)
        ELSE IF w1.items[w1.ret].item_file = None
             THEN Done(w1, add_error_string(a, "could not be added: file missing"))
        ELSE IF a.project_action THEN Done(w1, no_perform(a))
        ELSE Done(w1, a))

\* restore_action.apply_to_item_backwards
restore_backwards(w, a, h) ==
    Try(remove_item_by_index(w, h, a.item_index, FALSE), LAMBDA w1 :
        IF ~assert_valid_item(w1, a, w1.ret, a.logical_name) THEN Raise(w1, InvalidItem)
        ELSE IF w1.items[w1.ret].item_file = None
             THEN Done(w1, add_error_string(a, "could not be restored: file missing"))
        ELSE IF a.project_action THEN Done(w1, no_perform(a))
        ELSE Done(w1, a))

\* delete_item_action.apply_to_item_backwards
delete_item_backwards(w, a, h) ==
    Try(unset_item_deleted(w, h, a.item_index, a.timestamp), LAMBDA w1 :
        IF ~assert_valid_item(w1, a, w1.ret, a.logical_name) THEN Raise(w1, InvalidItem)
        ELSE IF w1.items[w1.ret].item_file = None
             THEN Done(w1, IF a.project_action
                           THEN add_error_string(a, "could not be deleted: file missing")
                           ELSE no_perform(add_error_string(a,
                                    "could not be deleted: file missing")))
        ELSE Done(w1, a))

\* file_create_action.apply_to_item_backwards
file_create_backwards(w, a, item) ==
    IF w.items[item].parent = None
    THEN Raise([w EXCEPT !.items[item].next_revision = NoRev], "AttributeError")
    ELSE Done(remove_from_directory([w EXCEPT !.items[item].next_revision = NoRev],
                                    w.items[item].parent, item), a)

\* project_create_action.apply_to_item_backwards
project_create_backwards(w, a, item) ==
    IF w.items[item].parent = None
    THEN Done([w EXCEPT !.items[item].next_revision = NoRev], no_perform(a))
    ELSE Try(remove_from_directory([w EXCEPT !.items[item].next_revision = NoRev],
                                   w.items[item].parent, item),
             LAMBDA w2 : Done([w2 EXCEPT !.items[item].parent = None], a))

\* recover_file_action.apply_to_item_backwards
recover_file_backwards(w, a, h) ==
    Bind(set_item_deleted(w, h, a.item_index), LAMBDA w1 :
        IF ~assert_valid_item(w1, a, w1.ret, a.logical_name) THEN Raise(w1, InvalidItem)
        ELSE IF w1.items[w1.ret].item_file = None
             THEN Done(w1, no_perform(add_error_string(a,
                               "could not be recovered: file missing")))
        ELSE IF ~HasNextRevision(w1, w1.ret) THEN Raise(w1, "AttributeError")
        ELSE Done(w1, [a EXCEPT !.data = get_next_revision_data(w1, w1.ret)]))

\* recover_project_action.recover_directory; an entry with data None is a
\* directory.  A child without a next revision makes it raise: the entry
\* [path |-> <<>>] marks that
RECURSIVE recover_directory(_, _)
RECURSIVE recover_children(_, _, _)
\* the same loop without "if child_item.is_deleted(): continue"
recover_children_with_deleted(w, arr, k) ==
    IF k > Len(arr) THEN <<>>
    ELSE (IF w.items[arr[k]].is_project THEN recover_directory(w, arr[k])
          ELSE IF ~HasNextRevision(w, arr[k]) THEN <<[path |-> <<>>, data |-> None]>>
          ELSE <<[path |-> make_full_path(w, arr[k]),
                  data |-> get_next_revision_data(w, arr[k])]>>)
         \o recover_children(w, arr, k + 1)

\* recover_project_action.recover_directory: the loop over all_items()
recover_children(w, arr, k) ==
    IF k > Len(arr) THEN <<>>
    ELSE (IF w.items[arr[k]].deleted THEN <<>>
          ELSE IF w.items[arr[k]].is_project THEN recover_directory(w, arr[k])
          ELSE IF ~HasNextRevision(w, arr[k]) THEN <<[path |-> <<>>, data |-> None]>>
          ELSE <<[path |-> make_full_path(w, arr[k]),
                  data |-> get_next_revision_data(w, arr[k])]>>)
         \o recover_children(w, arr, k + 1)

recover_directory(w, item) ==
    <<[path |-> make_full_path(w, item), data |-> None]>>
        \o recover_children(w, w.items[item].items_array, 1)

\* recover_project_action.apply_to_item_backwards
recover_project_backwards(w, a, h) ==
    Bind(set_item_deleted(w, h, a.item_index), LAMBDA w1 :
        IF ~assert_valid_item(w1, a, w1.ret, a.logical_name) THEN Raise(w1, InvalidItem)
        ELSE IF w1.items[w1.ret].item_file = None
             THEN Done(w1, [add_error_string(a, "could not be recovered: file missing")
                              EXCEPT !.tree_list = <<[path |-> a.pathname, data |-> None]>>])
        ELSE Bind(recover_directory(w1, w1.ret), LAMBDA tree :
                IF \E i \in 1..Len(tree) : tree[i].path = <<>>
                THEN Raise(w1, "AttributeError")
                ELSE Done(w1, [a EXCEPT !.tree_list = tree])))

\* the same, but a missing file does not take the emit away
destroy_backwards_keeps_emit(w, a, h) ==
    Try(insert_new_item(w, h, a.physical_name, a.logical_name, a.project_action,
                        a.was_deleted, 0, a.timestamp, a.item_index),
        LAMBDA w1 :
            IF w1.items[w1.ret].item_file = None
            THEN Done(w1, add_error_string(a, "could not be traced back: file missing"))
            ELSE IF a.was_deleted THEN Done(w1, no_perform(a))
            ELSE Done(w1, a))

\* destroy_action.apply_to_item_backwards
destroy_backwards(w, a, h) ==
    Try(insert_new_item(w, h, a.physical_name, a.logical_name, a.project_action,
                        a.was_deleted, 0, a.timestamp, a.item_index),
        LAMBDA w1 :
            IF w1.items[w1.ret].item_file = None
            THEN Done(w1, IF ~a.project_action \/ a.was_deleted
                          THEN no_perform(add_error_string(a,
                                   "could not be traced back: file missing"))
                          ELSE add_error_string(a, "could not be traced back: file missing"))
            ELSE IF a.was_deleted THEN Done(w1, no_perform(a))
            ELSE Done(w1, a))

\* rename_action.apply_to_item_backwards
rename_backwards(w, a, h) ==
    Try(remove_item_by_index(w, h, a.item_index, TRUE), LAMBDA w1 :
        IF ~assert_valid_item(w1, a, w1.ret, a.logical_name) THEN Raise(w1, InvalidItem)
        ELSE
    Try(insert_item_by_idx([w1 EXCEPT !.items[w1.ret].logical_name = a.original_name],
                           h, w1.ret, a.old_item_index),
        LAMBDA w3 :
            IF w3.items[w1.ret].item_file = None
            THEN Done(w3, IF a.project_action
                          THEN add_error_string(a,
                                   "Rename: physical name not present in the database")
                          ELSE no_perform(add_error_string(a,
                                   "Rename: physical name not present in the database")))
            ELSE IF w3.items[w1.ret].deleted THEN Done(w3, no_perform(a))
            ELSE Done(insert_pending_item(remove_pending_item(w3, h, w1.ret), h, w1.ret), a)))

\* share_action.apply_to_item_backwards
share_backwards(w, a, h) ==
    Try(remove_item_by_index(w, h, a.item_index, TRUE), LAMBDA w1 :
        IF ~assert_valid_item(w1, a, w1.ret, a.logical_name) THEN Raise(w1, InvalidItem)
        ELSE IF w1.items[w1.ret].item_file = None
             THEN Done(w1, no_perform(add_error_string(a, "could not be shared: file missing")))
        ELSE
    Bind(remove_pending_item(w1, h, w1.ret), LAMBDA w2 :
        IF ~HasNextRevision(w2, w1.ret) THEN Raise(w2, "AttributeError")
        ELSE
    Try(find_by_path_name(w2, h, a.original_project), LAMBDA w3 :
        IF w3.ret = None \/ w3.items[w3.ret].item_file = None
        THEN Done(w3, [a EXCEPT !.data = get_next_revision_data(w2, w1.ret),
                                !.original_pathname = <<>>])
        ELSE Done(w3, [a EXCEPT !.data = get_next_revision_data(w2, w1.ret)]))))

\* pin_action.apply_to_item_backwards
pin_backwards(w, a, h) ==
    Try(unset_item_pinned(w, h, a.item_index, a.timestamp), LAMBDA w1 :
        IF ~assert_valid_item(w1, a, w1.ret, a.logical_name) THEN Raise(w1, InvalidItem)
        ELSE IF w1.items[w1.ret].item_file = None
             THEN Done(w1, no_perform(add_error_string(a, "could not be pinned: file missing")))
        ELSE IF get_revision(w1.objects, w1.items[w1.ret].item_file, a.pinned_revision)
                    = OutOfRange
             THEN Raise(w1, "ArgumentOutOfRangeException")
        ELSE Done(w1, [a EXCEPT !.data = get_revision_data(w1.objects,
                                             w1.items[w1.ret].item_file, a.pinned_revision)]))

\* unpin_action.apply_to_item_backwards
unpin_backwards(w, a, h) ==
    Bind(set_item_pinned(w, h, a.item_index, a.unpinned_revision), LAMBDA w1 :
        IF ~assert_valid_item(w1, a, w1.ret, a.logical_name) THEN Raise(w1, InvalidItem)
        ELSE IF w1.items[w1.ret].item_file = None
             THEN Done(w1, no_perform(add_error_string(a,
                               "could not be unpinned: file missing")))
        ELSE IF ~HasNextRevision(w1, w1.ret) THEN Raise(w1, "AttributeError")
        ELSE Done(w1, [a EXCEPT !.data = get_next_revision_data(w1, w1.ret)]))

\* the class project_action_dict (with create_share_action) gives a revision
ProjectActionKind(revision) ==
    IF revision.action = "ShareFile" THEN create_share_action(revision) ELSE revision.action

\* the backward apply of the action of a project revision, by its class
apply_project_action_backwards(w, a, h) ==
    CASE a.kind \in {"AddProject", "AddFile"} -> add_item_backwards(w, a, h)
      [] a.kind \in {"RestoreProject", "RestoreFile"} -> restore_backwards(w, a, h)
      [] a.kind \in {"DeleteProject", "DeleteFile"} -> delete_item_backwards(w, a, h)
      [] a.kind = "RecoverFile" -> recover_file_backwards(w, a, h)
      [] a.kind = "RecoverProject" -> recover_project_backwards(w, a, h)
      [] a.kind \in {"DestroyProject", "DestroyFile"} -> destroy_backwards(w, a, h)
      [] a.kind \in {"RenameProject", "RenameFile"} -> rename_backwards(w, a, h)
      [] a.kind = "Share" -> share_backwards(w, a, h)
      [] a.kind = "Pin" -> pin_backwards(w, a, h)
      [] a.kind = "Unpin" -> unpin_backwards(w, a, h)
      [] a.kind = "CreateProject" -> project_create_backwards(w, a, h)
      [] OTHER -> Raise(w, "UnrecognizedRevActionException")

\* create_project_action: project_action_dict and the backward apply
project_action_backwards(w, revision, base_path, h) ==
    apply_project_action_backwards(w,
        Action(ProjectActionKind(revision), revision, base_path,
               IF ProjectActionKind(revision) = "CreateProject" THEN "" ELSE revision.name),
        h)

\* create_file_action: file_action_dict and the backward apply
file_action_backwards(w, revision, pathname, item) ==
    CASE revision.action = "CreateFile" ->
            file_create_backwards(w, Action(revision.action, revision, pathname, ""), item)
      [] revision.action = "CheckinFile" ->
            Done(w, Action(revision.action, revision, pathname, ""))
      [] revision.action = "CreateBranch" ->
            Done([w EXCEPT !.items[item].next_revision = NoRev],
                 Action(revision.action, revision, pathname, ""))
      [] OTHER -> Raise(w, "UnrecognizedRevActionException")

\* the cursor steps back: next_revision_num, next_revision
step_back(w, i) ==
    IF w.items[i].next_revision_num = 0 THEN [w EXCEPT !.items[i].next_revision = NoRev]
    ELSE Bind(get_revision(w.objects, w.items[i].item_file, w.items[i].next_revision_num),
              LAMBDA r :
                 [w EXCEPT !.items[i].next_revision = r,
                           !.items[i].next_revision_num =
                               IF w.items[i].is_project /\ r = NoRev THEN 0 ELSE @ - 1])

\* the entry get_next_revision_action of a directory pops
LastPending(w, i) == w.items[i].pending_child_items[Len(w.items[i].pending_child_items)]

\* vss_file_changeset_item.get_next_revision_action and
\* vss_directory_changeset_item.get_next_revision_action; w.act is the action
get_next_revision_action(w, i, base_path) ==
    IF ~w.items[i].is_project
    THEN IF w.items[i].next_revision = NoRev THEN Raise(w, "AttributeError")
         ELSE file_action_backwards(step_back(w, i),
                  RevOf(w.objects, w.items[i].next_revision),
                  Append(base_path, w.items[i].logical_name), i)
    ELSE IF w.items[i].pending_child_items = <<>> THEN [w EXCEPT !.act = NoAction]
    ELSE Try(Bind([w EXCEPT !.items[i].pending_child_items = SubSeq(@, 1, Len(@) - 1)],
                  LAMBDA w1 :
                     IF LastPending(w, i).item # i
                     THEN get_next_revision_action(w1, LastPending(w, i).item,
                              Append(base_path, w.items[i].logical_name))
                     ELSE IF w.items[i].next_revision = NoRev
                          THEN Raise(w1, "AttributeError")
                     ELSE project_action_backwards(step_back(w1, i),
                              RevOf(w.objects, w.items[i].next_revision),
                              Append(base_path, w.items[i].logical_name), i)),
             LAMBDA w2 : insert_pending_item(w2, i, LastPending(w, i).item))

\* Branch the shared file x of project q: q gets the new file y in its place
DoBranch(dsk, t, q, x, y) ==
    LET n == EntryOf(dsk, q, x).name
        first == NumRevisions(dsk[x]) + 1
        d1 == [dsk EXCEPT ![y] =
                 [NoFile EXCEPT !.present = TRUE, !.data_present = TRUE,
                                !.first_revision = first, !.branch_file = x,
                                !.revisions = <<[Revision(first, "CreateBranch", t, n, y)
                                                   EXCEPT !.source_physical = x,
                                                          !.revision_data = Content(y, first)]>>]]
    IN  Logged(d1, q, [Revision(0, "BranchFile", t, n, y) EXCEPT !.source_physical = x],
               y, Plain)

\* the repository every run starts from: the root with the project p and
\* the file a, which p shares
BaseRepository ==
    DoShare(DoAddFile(DoAddProject(NewRepository, 2, "BAAAAAAA", "p"),
                      3, RootProjectFile, "CAAAAAAA", "a"),
            4, RootProjectFile, "BAAAAAAA", "CAAAAAAA")

\* a repository with a branch: p also has the file b, a was checked in and
\* then branched in p, and the branch was checked in
BranchedRepository ==
    DoCheckin(DoBranch(DoCheckin(DoAddFile(BaseRepository, 5, "BAAAAAAA", "DAAAAAAA", "b"),
                                 6, "CAAAAAAA"),
                       7, "BAAAAAAA", "CAAAAAAA", "EAAAAAAA"),
              8, "EAAAAAAA")

\* Add a new project x under the name n to project p
DoAddProjectIn(dsk, t, p, x, n) ==
    Bind([dsk EXCEPT ![x] = [NoFile EXCEPT !.present = TRUE, !.data_present = TRUE,
                               !.revisions = <<Revision(1, "CreateProject", t, n, x)>>]],
         LAMBDA d1 : Logged(d1, p, Revision(0, "AddProject", t, n, x), x, Plain))

\* a repository with a project in a project: the root has the project p, p
\* has the file a, the project b and the file q, and b has a file a
NestedRepository ==
    DoAddFile(DoAddFile(DoAddProjectIn(DoAddFile(DoAddProject(NewRepository, 2, "BAAAAAAA", "p"),
                                                 3, "BAAAAAAA", "CAAAAAAA", "a"),
                                       4, "BAAAAAAA", "FAAAAAAA", "b"),
                        5, "FAAAAAAA", "EAAAAAAA", "a"),
              6, "BAAAAAAA", "DAAAAAAA", "q")

\* Restore the file x from an archive into project p under the name n: the
\* file comes with the revision it had, created at the time created
DoRestoreFile(dsk, t, p, x, n, created) ==
    Bind([dsk EXCEPT ![x] =
             [NoFile EXCEPT !.present = TRUE, !.data_present = TRUE,
                 !.revisions = <<[Revision(1, "CreateFile", created, n, x)
                                    EXCEPT !.revision_data = Content(x, 1)]>>]],
         LAMBDA d1 : Logged(d1, p, Revision(0, "RestoreFile", t, n, x), x, Plain))

\* a repository with restored files: the project p was added at the time 3;
\* the file b, created at 5, was restored into it at 6 and the file a,
\* created at 2, at 7
RestoredRepository ==
    DoRestoreFile(DoRestoreFile(DoAddProject(NewRepository, 3, "BAAAAAAA", "p"),
                                6, "BAAAAAAA", "DAAAAAAA", "b", 5),
                  7, "BAAAAAAA", "CAAAAAAA", "a", 2)

\* the files of the data directory that can be lost: an item file, or the
\* sibling data file of an item
DataFiles == {get_data_file_name(p) : p \in Phys}
Losable == (Phys \cup DataFiles) \ {RootProjectFile, get_data_file_name(RootProjectFile)}

Lost(dsk, names) ==
    [p \in Phys |->
        [dsk[p] EXCEPT !.present = @ /\ p \notin names,
                       !.data_present = @ /\ get_data_file_name(p) \notin names]]

\* a damaged header: file x names parent as its branch parent
Rebranched(dsk, x, parent) ==
    IF parent = "" THEN dsk
    ELSE [dsk EXCEPT ![x].branch_file = parent, ![x].first_revision = 2,
                     ![x].revisions = Tail(@)]

----------------------------------------------------------------------------
(* perform_revision_action, and a sink behind the revision action handler  *)

\* one call on the revision action handler
HandlerCall(op, path, data, old_path) ==
    [op |-> op, path |-> path, data |-> data, old_path |-> old_path]

\* the calls of recover_project_action.perform_revision_action
TreeCalls(tree_list) ==
    [i \in 1..Len(tree_list) |->
        IF tree_list[i].data = None
        THEN HandlerCall("create_directory", tree_list[i].path, None, <<>>)
        ELSE HandlerCall("create_file", tree_list[i].path, tree_list[i].data, <<>>)]

\* perform_revision_action of every action class: the calls it makes on the
\* handler, in order
perform_revision_action(a) ==
    IF ~a.perform THEN <<>>
    ELSE CASE a.kind \in {"AddProject", "CreateProject", "RestoreProject"} ->
                <<HandlerCall("create_directory", a.pathname, None, <<>>)>>
           [] a.kind \in {"DeleteProject", "DestroyProject"} ->
                <<HandlerCall("delete_directory", a.pathname, None, <<>>)>>
           [] a.kind \in {"DeleteFile", "DestroyFile"} ->
                <<HandlerCall("delete_file", a.pathname, None, <<>>)>>
           [] a.kind \in {"CreateFile", "RecoverFile"} ->
                <<HandlerCall("create_file", a.pathname, a.data, <<>>)>>
           [] a.kind = "Share" ->
                <<HandlerCall("create_file", a.pathname, a.data, a.original_pathname)>>
           [] a.kind = "RecoverProject" -> TreeCalls(a.tree_list)
           [] a.kind = "RenameFile" ->
                <<HandlerCall("rename_file", a.pathname, None, a.original_pathname)>>
           [] a.kind = "RenameProject" ->
                <<HandlerCall("rename_directory", a.pathname, None, a.original_pathname)>>
           [] a.kind \in {"Pin", "Unpin", "CheckinFile", "CreateBranch"} ->
                <<HandlerCall("change_file", a.pathname, a.data, <<>>)>>
           [] OTHER -> <<>>

\* path p is prefix itself or lies below it
Under(p, prefix) == Len(p) >= Len(prefix) /\ SubSeq(p, 1, Len(prefix)) = prefix

\* a sink that keeps a tree of paths: a file with its content, a directory
\* with None
SinkCall(s, c) ==
    CASE c.op \in {"create_file", "change_file"} ->
            {e \in s : e.path # c.path} \cup {[path |-> c.path, data |-> c.data]}
      [] c.op = "create_directory" ->
            {e \in s : e.path # c.path} \cup {[path |-> c.path, data |-> None]}
      [] c.op = "delete_file" -> {e \in s : e.path # c.path}
      [] c.op = "delete_directory" -> {e \in s : ~Under(e.path, c.path)}
      [] c.op = "rename_file" ->
            {e \in s : e.path # c.old_path /\ e.path # c.path}
                \cup {[path |-> c.path, data |-> e.data] : e \in {f \in s : f.path = c.old_path}}
      [] c.op = "rename_directory" ->
            {e \in s : ~Under(e.path, c.old_path) /\ ~Under(e.path, c.path)}
                \cup {[path |-> c.path \o SubSeq(e.path, Len(c.old_path) + 1, Len(e.path)),
                       data |-> e.data] : e \in {f \in s : Under(f.path, c.old_path)}}
      [] OTHER -> s

RECURSIVE SinkCalls(_, _)
SinkCalls(s, cs) == IF cs = <<>> THEN s ELSE SinkCalls(SinkCall(s, Head(cs)), Tail(cs))

\* every changeset in list order, every action in changeset order
RECURSIVE ReplayActions(_, _)
ReplayActions(s, as) ==
    IF as = <<>> THEN s
    ELSE ReplayActions(SinkCalls(s, perform_revision_action(Head(as))), Tail(as))

RECURSIVE ReplayChangesets(_, _)
ReplayChangesets(s, cl) ==
    IF cl = <<>> THEN s
    ELSE ReplayChangesets(ReplayActions(s, Head(cl).action_list), Tail(cl))

\* the project tree below the root as the items hold it: the paths of the
\* items that are not deleted, a file with the content of the revision its
\* project shows (the pinned one, or the latest)
ShownData(objs, item) ==
    get_revision_data(objs, item.item_file,
        IF item.pinned_version > 0 THEN item.pinned_version
        ELSE objs[item.item_file].num_revisions)

RECURSIVE LoadedTree(_, _)
LoadedTree(w, h) ==
    UNION {IF w.items[c].deleted THEN {}
           ELSE IF w.items[c].is_project
                THEN {[path |-> make_full_path(w, c), data |-> None]} \cup LoadedTree(w, c)
           ELSE {[path |-> make_full_path(w, c),
                  data |-> IF w.items[c].item_file = None THEN None
                           ELSE ShownData(w.objects, w.items[c])]} :
           c \in {w.items[h].items_array[i] : i \in 1..Len(w.items[h].items_array)}}

----------------------------------------------------------------------------
(* vss_record_reader: a view [slice_offset, slice_offset + length) of the  *)
(* bytes of a file, and the offset of the next read inside the view.  The  *)
(* bytes a read returns are given as their indices in the file's data.     *)

EndOfBufferException == "EndOfBufferException"
UnalignedReadException == "UnalignedReadException"
StructError == "struct.error"

\* the size of vss_name.unpack_format, '<H34sI'
NameSize == 40

\* the outcome of a call on a reader: the reader as it is now, the
\* exception the call raised ("" when none) and the bytes it returned
Out(self, exc, ret) == [self |-> self, exc |-> exc, ret |-> ret]

\* the index a slice bound i stands for in a sequence of n bytes
PyBound(n, i) == IF i < 0 THEN (IF i + n < 0 THEN 0 ELSE i + n) ELSE IF i > n THEN n ELSE i

\* data[a:b] of n bytes of data
PySlice(n, a, b) == {i \in 0..(n - 1) : PyBound(n, a) <= i /\ i < PyBound(n, b)}

\* struct.unpack_from(data, offset) of size bytes: the offset may count from
\* the end, and the bytes must be there
unpack_from(n, offset, size) ==
    Bind(IF offset < 0 THEN offset + n ELSE offset, LAMBDA o :
        IF o < 0 \/ o + size > n THEN [exc |-> StructError, ret |-> {}]
        ELSE [exc |-> "", ret |-> {i \in 0..(n - 1) : o <= i /\ i < o + size}])

\* vss_record_reader.__init__; length -1 stands for "to the end of data"
vss_record_reader_init(data_len, length, slice_offset) ==
    Bind(IF length = -1 THEN data_len - slice_offset ELSE length, LAMBDA len :
        IF slice_offset > data_len THEN Out(None, EndOfBufferException, {})
        ELSE IF len > data_len - slice_offset THEN Out(None, EndOfBufferException, {})
        ELSE Out([data_len |-> data_len, slice_offset |-> slice_offset,
                  offset |-> 0, length |-> len], "", {}))

\* vss_record_reader.clone; length is <<>> for None ("the rest of the
\* view") and <<n>> for the length n
clone(self, additional_offset, length) ==
    Bind(self.offset + additional_offset, LAMBDA offset :
        IF offset > self.length THEN Out(None, EndOfBufferException, {})
        ELSE IF length # <<>> /\ length[1] + offset > self.length
             THEN Out(None, EndOfBufferException, {})
        ELSE vss_record_reader_init(self.data_len,
                                    IF length = <<>> THEN self.length - offset ELSE length[1],
                                    offset + self.slice_offset))

\* vss_record_reader.check_read: the exception it raises, "" when none
check_read(self, length) ==
    IF self.offset + length > self.length THEN EndOfBufferException ELSE ""

\* vss_record_reader.check_read_at
check_read_at(self, offset, length) ==
    IF offset + length > self.length THEN EndOfBufferException ELSE ""

\* vss_record_reader.read_bytes
read_bytes(self, length) ==
    IF check_read(self, length) # "" THEN Out(self, check_read(self, length), {})
    ELSE Out([self EXCEPT !.offset = @ + length], "",
             PySlice(self.data_len, self.offset + self.slice_offset,
                     self.offset + self.slice_offset + length))

\* vss_record_reader.read_bytes_at
read_bytes_at(self, offset, length) ==
    IF check_read_at(self, offset, length) # ""
    THEN Out(self, check_read_at(self, offset, length), {})
    ELSE Out(self, "", PySlice(self.data_len, offset + self.slice_offset,
                               offset + self.slice_offset + length))

\* vss_record_reader.read_int16 (read_uint16 masks its value)
read_int16(self, unaligned) ==
    IF ~unaligned /\ self.offset % 2 # 0 THEN Out(self, UnalignedReadException, {})
    ELSE read_bytes(self, 2)

\* vss_record_reader.read_int16_at (read_uint16_at masks its value)
read_int16_at(self, offset, unaligned) ==
    IF ~unaligned /\ (self.offset + offset) % 2 # 0
    THEN Out(self, UnalignedReadException, {})
    ELSE read_bytes_at(self, offset, 2)

\* vss_record_reader.read_int32 (read_uint32 masks its value)
read_int32(self, unaligned) ==
    IF ~unaligned /\ self.offset % 4 # 0 THEN Out(self, UnalignedReadException, {})
    ELSE read_bytes(self, 4)

\* vss_record_reader.read_int32_at (read_uint32_at masks its value): the
\* test is "& 1"
read_int32_at(self, offset, unaligned) ==
    IF ~unaligned /\ (self.offset + offset) % 2 # 0
    THEN Out(self, UnalignedReadException, {})
    ELSE read_bytes_at(self, offset, 4)

\* vss_record_reader.skip
skip(self, skip_bytes) ==
    IF check_read(self, skip_bytes) # "" THEN Out(self, check_read(self, skip_bytes), {})
    ELSE Out([self EXCEPT !.offset = @ + skip_bytes], "", {})

\* vss_record_reader.remaining
remaining(self) == self.length - self.offset

\* vss_record_reader.read_byte_string_at; zero_terminated keeps a prefix of
\* the bytes that were read
read_byte_string_at(self, offset, length) ==
    IF length < 0
    THEN IF check_read_at(self, offset, 0) # ""
         THEN Out(self, check_read_at(self, offset, 0), {})
         ELSE read_bytes_at(self, offset, self.length - offset)
    ELSE read_bytes_at(self, offset, length)

\* vss_record_reader.read_byte_string
read_byte_string(self, length) ==
    Bind(IF length < 0 THEN remaining(self) ELSE length, LAMBDA len :
        Bind(read_byte_string_at(self, self.offset, len), LAMBDA read :
            IF read.exc # "" THEN read
            ELSE Bind(skip(self, len), LAMBDA skipped :
                    IF skipped.exc # "" THEN skipped
                    ELSE Out(skipped.self, "", read.ret))))

\* vss_record_reader.unpack_at with a format of the given size
unpack_at(self, offset, size) ==
    IF check_read_at(self, offset, size) # ""
    THEN Out(self, check_read_at(self, offset, size), {})
    ELSE Bind(unpack_from(self.data_len, offset + self.slice_offset, size),
              LAMBDA unpacked : Out(self, unpacked.exc, unpacked.ret))

\* vss_record_reader.unpack
unpack(self, size) ==
    Bind(unpack_at(self, self.offset, size), LAMBDA unpacked :
        IF unpacked.exc # "" THEN unpacked
        ELSE Out([self EXCEPT !.offset = @ + size], "", unpacked.ret))

\* vss_record_reader.read_name
read_name(self) == unpack(self, NameSize)

----------------------------------------------------------------------------
(* crc32, vss_record_header and vss_record_file.read_record.  A 32-bit     *)
(* value is the pair <<high 16 bits, low 16 bits>>; a file's data is the   *)
(* sequence of its bytes, byte i of Python being data[i + 1].              *)

\* a ^ b of two non-negative integers
RECURSIVE Xor(_, _)
Xor(a, b) ==
    IF a = 0 THEN b
    ELSE IF b = 0 THEN a
    ELSE ((a + b) % 2) + 2 * Xor(a \div 2, b \div 2)

Xor32(v, u) == <<Xor(v[1], u[1]), Xor(v[2], u[2])>>

\* value >> 1 and value >> 8 of a 32-bit value
ShiftRight1(v) == <<v[1] \div 2, v[2] \div 2 + (v[1] % 2) * 32768>>
ShiftRight8(v) == <<v[1] \div 256, v[2] \div 256 + (v[1] % 256) * 256>>

\* crc32.POLY, 0xEDB88320
POLY == <<60856, 33568>>

\* the loop "for j in range(8)" of the table's making, j rounds to go
RECURSIVE TableRounds(_, _)
TableRounds(value, j) ==
    IF j = 0 THEN value
    ELSE TableRounds(IF value[2] % 2 = 1 THEN Xor32(POLY, ShiftRight1(value))
                     ELSE ShiftRight1(value), j - 1)

\* crc32.table
crc32_table == [i \in 0..255 |-> TableRounds(<<0, i>>, 8)]

\* crc32.calculate(data, offset=offset, length=length) with initial = final
\* = 0; crc is the value so far
RECURSIVE crc32_calculate(_, _, _, _)
crc32_calculate(data, crc, offset, length) ==
    IF length = 0 THEN crc
    ELSE crc32_calculate(data,
                         Xor32(ShiftRight8(crc),
                               crc32_table[Xor(crc[2], data[offset + 1]) % 256]),
                         offset + 1, length - 1)

\* vss_record_reader.crc16
crc16(self, data, length) ==
    IF length >= 0 /\ check_read(self, length) # ""
    THEN [exc |-> check_read(self, length), ret |-> 0]
    ELSE Bind(crc32_calculate(data, <<0, 0>>, self.offset + self.slice_offset,
                              IF length < 0 THEN self.length - self.offset ELSE length),
              LAMBDA crc : [exc |-> "", ret |-> Xor(crc[2], crc[1])])

\* int.from_bytes(data[offset:offset+size], byteorder='little')
RECURSIVE from_bytes(_, _, _)
from_bytes(data, offset, size) ==
    IF size = 0 THEN 0 ELSE data[offset + 1] + 256 * from_bytes(data, offset + 1, size - 1)

\* the signatures b"MC" (vss_comment_record), b"BF" (vss_branch_record) and
\* one that no record class has
SignatureMC == <<77, 67>>
SignatureBF == <<66, 70>>
SignatureZZ == <<90, 90>>

RecordCrcException == "RecordCrcException"
RecordTruncatedException == "RecordTruncatedException"
UnrecognizedRecordException == "UnrecognizedRecordException"

\* vss_record_header.LENGTH, the size of '<I2sH'
HeaderLength == 8

NoHeader == [offset |-> 0, length |-> 0, signature |-> <<>>, file_crc |-> 0,
             actual_crc |-> 0, reader |-> None]

\* vss_record_header.__init__ and read: w is [reader, exc, header]
vss_record_header_init(reader, data) ==
    Bind(unpack(reader, HeaderLength), LAMBDA unpacked :
        IF unpacked.exc # "" THEN [reader |-> reader, exc |-> unpacked.exc, header |-> NoHeader]
        ELSE Bind(from_bytes(data, reader.offset + reader.slice_offset, 4), LAMBDA length :
             Bind(clone(unpacked.self, 0, <<length>>), LAMBDA cloned :
                IF cloned.exc # ""
                THEN [reader |-> unpacked.self, exc |-> cloned.exc, header |-> NoHeader]
                ELSE Bind(crc16(cloned.self, data, length), LAMBDA actual_crc :
                     Bind(skip(unpacked.self, length), LAMBDA skipped :
                        [reader |-> skipped.self,
                         exc |-> IF actual_crc.exc # "" THEN actual_crc.exc ELSE skipped.exc,
                         header |->
                            [offset |-> reader.offset, length |-> length,
                             signature |-> <<data[reader.offset + reader.slice_offset + 5],
                                             data[reader.offset + reader.slice_offset + 6]>>,
                             file_crc |-> from_bytes(data,
                                              reader.offset + reader.slice_offset + 6, 2),
                             actual_crc |-> actual_crc.ret,
                             reader |-> cloned.self]])))))

\* vss_record_header.is_crc_valid
is_crc_valid(header) == header.file_crc = header.actual_crc

\* a check_crc that lets every record pass
check_crc_skipped(header) ==
    ""

\* vss_record_header.check_crc: the exception it raises, "" when none
check_crc(header) ==
    IF header.signature # SignatureMC /\ ~is_crc_valid(header)
    THEN RecordCrcException ELSE ""

\* vss_item_record_factory.create_record: the class of the record, "" for None
create_record(header) ==
    IF header.signature = SignatureMC THEN "vss_comment_record"
    ELSE IF header.signature = SignatureBF THEN "vss_branch_record"
    ELSE ""

\* record.read() of vss_comment_record and of vss_branch_record: the
\* exception it raises
record_read(class, header) ==
    IF class = "vss_comment_record"
    THEN read_byte_string(header.reader, header.length).exc
    ELSE Bind(read_int32(header.reader, FALSE), LAMBDA prev_branch_offset :
            IF prev_branch_offset.exc # "" THEN prev_branch_offset.exc
            ELSE read_byte_string(prev_branch_offset.self, 12).exc)

\* the None that read_record and get_record return for a record
NoRecord == [class |-> "", header |-> NoHeader]

\* vss_record_file.read_record with vss_item_record_factory: file is
\* [reader, records]; the outcome is [file, exc, record]
read_record(file, data, offset, ignore_unknown) ==
    Bind(vss_record_header_init([file.reader EXCEPT !.offset = offset], data), LAMBDA h :
        Bind(IF h.exc # "" THEN h.exc
             ELSE IF check_crc(h.header) # "" THEN check_crc(h.header)
             ELSE IF create_record(h.header) # ""
                  THEN record_read(create_record(h.header), h.header)
             ELSE IF ~ignore_unknown THEN UnrecognizedRecordException
             ELSE "",
             LAMBDA exc :
                [file |-> [file EXCEPT !.reader = h.reader],
                 exc |-> IF exc = EndOfBufferException THEN RecordTruncatedException ELSE exc,
                 record |-> IF exc = "" /\ create_record(h.header) # ""
                            THEN [class |-> create_record(h.header), header |-> h.header]
                            ELSE NoRecord]))

\* the record at offset in records, None when there is none
get_record(file, offset) ==
    IF \E r \in file.records : r.header.offset = offset
    THEN CHOOSE r \in file.records : r.header.offset = offset
    ELSE NoRecord

----------------------------------------------------------------------------
(* MODEL-END: the specifications and the claims follow *)

----------------------------------------------------------------------------
(* SpecBuild: build over an arbitrary drained stream *)

InitBuild ==
    /\ pc = "drain"
    /\ action_list = <<>>
    /\ changeset_list = None
    /\ fold_i = 0
    /\ disk = None /\ now = 0
    /\ record_files_by_physical = None /\ objects = <<>> /\ items = <<>> /\ root = None
    /\ calls = 0 /\ result = None /\ sink = None

\* build, lines 293-294: one more action comes out of the root cursor; id is
\* its place in the merge order
Drain ==
    /\ pc = "drain"
    /\ Len(action_list) < MaxActions
    /\ \E t \in 1..MaxStamp, u \in Authors :
         action_list' = Append(action_list,
                               [id |-> Len(action_list) + 1, timestamp |-> t, author |-> u,
                                comment |-> <<>>, label_comment |-> <<>>])
    /\ UNCHANGED <<pc, changeset_list, fold_i, diskVars, dbVars, calls, result, sink>>

\* build, lines 296-298: the cursor is drained; sort, and start the fold
Sort ==
    /\ pc = "drain"
    /\ action_list' = SortActions(action_list)
    /\ changeset_list' = <<>>
    /\ fold_i' = 1
    /\ pc' = "fold"
    /\ UNCHANGED <<diskVars, dbVars, calls, result, sink>>

\* build, lines 299-304
Fold ==
    /\ pc = "fold"
    /\ IF fold_i <= Len(action_list)
       THEN /\ changeset_list' = FoldOne(changeset_list, action_list[fold_i])
            /\ fold_i' = fold_i + 1
            /\ pc' = pc
       ELSE /\ pc' = "done"
            /\ UNCHANGED <<changeset_list, fold_i>>
    /\ UNCHANGED <<action_list, diskVars, dbVars, calls, result, sink>>

NextBuild == Drain \/ Sort \/ Fold

SpecBuild == InitBuild /\ [][NextBuild]_vars

----------------------------------------------------------------------------
(* Claims on build *)

\* get_changelist
get_changelist == changeset_list

\* the place of the action with this id in a list of actions
PosOf(s, id) == CHOOSE i \in 1..Len(s) : s[i].id = id

\* C1: after build, the changesets of get_changelist are in non-decreasing
\* (timestamp, author) order: each changeset's key is <= its successor's.
C1_ChangelistOrdered ==
    pc = "done" =>
        \A i \in 1..(Len(get_changelist) - 1) :
            KeyLE(<<get_changelist[i].timestamp, get_changelist[i].author>>,
                  <<get_changelist[i + 1].timestamp, get_changelist[i + 1].author>>)

\* a finished build of a stream that was drained out of order (a later
\* timestamp first, and within a timestamp a greater author first)
C1_Witness ==
    /\ pc = "done"
    /\ Len(get_changelist) >= 3
    /\ \E i, j \in 1..Len(action_list) :
         /\ action_list[i].id > action_list[j].id
         /\ action_list[i].timestamp < action_list[j].timestamp
    /\ \E i, j \in 1..Len(action_list) :
         /\ action_list[i].id > action_list[j].id
         /\ action_list[i].timestamp = action_list[j].timestamp
         /\ action_list[i].author < action_list[j].author

\* C2: after build the changesets are exactly the maximal runs of equal
\* (timestamp, author) of the sorted stream: none is empty, the changesets
\* laid end to end hold every sorted action exactly once and run by run,
\* each action carries its changeset's timestamp and author, and no two
\* neighbouring changesets agree in both.
C2_ChangesetsAreMaximalRuns ==
    pc = "done" =>
        /\ \A i \in 1..Len(get_changelist) : get_changelist[i].action_list # <<>>
        /\ Flatten([i \in 1..Len(get_changelist) |->
                        Reverse(get_changelist[i].action_list)]) = action_list
        /\ \A i \in 1..Len(get_changelist) :
             \A k \in 1..Len(get_changelist[i].action_list) :
                /\ get_changelist[i].action_list[k].timestamp = get_changelist[i].timestamp
                /\ get_changelist[i].action_list[k].author = get_changelist[i].author
        /\ \A i \in 1..(Len(get_changelist) - 1) :
             \/ get_changelist[i].timestamp # get_changelist[i + 1].timestamp
             \/ get_changelist[i].author # get_changelist[i + 1].author

\* a finished build with a run of two actions, and two neighbouring
\* changesets of one timestamp that differ in the author only
C2_Witness ==
    /\ pc = "done"
    /\ \E i \in 1..Len(get_changelist) : Len(get_changelist[i].action_list) >= 2
    /\ \E i \in 1..(Len(get_changelist) - 1) :
         /\ get_changelist[i].timestamp = get_changelist[i + 1].timestamp
         /\ get_changelist[i].author # get_changelist[i + 1].author

\* C3 as claimed: within every changeset, get_actions yields the actions in
\* the relative order they have in the sorted stream.
C3_SameOrderAsSortedStream ==
    pc = "done" =>
        \A i \in 1..Len(get_changelist) :
            \A k, l \in 1..Len(get_changelist[i].action_list) :
                k < l => PosOf(action_list, get_changelist[i].action_list[k].id)
                         < PosOf(action_list, get_changelist[i].action_list[l].id)

\* C3 amended: within every changeset, get_actions yields the actions in the
\* REVERSE of their order in the sorted stream, which for equal (timestamp,
\* author) is the merge order: the action drained last comes first.
C3_ReverseOfSortedStream ==
    pc = "done" =>
        \A i \in 1..Len(get_changelist) :
            \A k, l \in 1..Len(get_changelist[i].action_list) :
                k < l => /\ PosOf(action_list, get_changelist[i].action_list[k].id)
                            > PosOf(action_list, get_changelist[i].action_list[l].id)
                         /\ get_changelist[i].action_list[k].id
                            > get_changelist[i].action_list[l].id

\* a finished build with a changeset of three actions
C3_Witness ==
    /\ pc = "done"
    /\ \E i \in 1..Len(get_changelist) : Len(get_changelist[i].action_list) >= 3

----------------------------------------------------------------------------
(* SpecDb: opening items of one database                                   *)

MaxCalls == 3
MaxMissing == 1

\* the state of the database as the operators thread it
Threaded ==
    [cache |-> record_files_by_physical, objects |-> objects, items |-> items,
     exc |-> "", ret |-> None, act |-> NoAction]

InitDb ==
    /\ pc = "db"
    /\ action_list = <<>>
    /\ changeset_list = None
    /\ fold_i = 0
    /\ \E names \in SUBSET Losable, parent \in {"", "CAAAAAAA", "EAAAAAAA"} :
          /\ Cardinality(names) <= MaxMissing
          /\ disk = Lost(Rebranched(BranchedRepository, "CAAAAAAA", parent), names)
    /\ now = 8
    /\ record_files_by_physical = [n \in Phys \cup DataFiles |-> None]
    /\ objects = <<>>
    /\ items = <<>>
    /\ root = None
    /\ calls = 0
    /\ result = [op |-> "", arg |-> "", exc |-> "", ret |-> None]
    /\ sink = None

\* what a call leaves behind
Returned(w, op, arg) ==
    /\ record_files_by_physical' = w.cache
    /\ objects' = w.objects
    /\ items' = w.items
    /\ result' = [op |-> op, arg |-> arg, exc |-> w.exc,
                  ret |-> IF w.exc = "" THEN w.ret ELSE None]
    /\ calls' = calls + 1
    /\ UNCHANGED <<pc, action_list, changeset_list, fold_i, disk, now, sink>>

\* vss_database.open_root_project(project_class, recursive=True)
OpenRootProject ==
    /\ pc = "db" /\ calls < MaxCalls
    /\ \E cursor \in BOOLEAN :
          \E w \in {vss_project_init(Threaded, cursor, RootProjectFile, RootProjectName, FALSE)} :
              /\ Returned(w, "open_root_project", RootProjectFile)
              /\ root' = IF w.exc = "" THEN w.ret ELSE root

\* one more handle of a file: vss_file(database, physical_name, ...)
OpenFileItem ==
    /\ pc = "db" /\ calls < MaxCalls
    /\ \E x \in FilePhys, cursor \in BOOLEAN :
          /\ Returned(vss_file_init(Threaded, cursor, x, "a", FALSE, 0), "vss_file", x)
          /\ UNCHANGED root

\* vss_database.open_records_file(vss_file_item_file, physical_name)
OpenRecordsFile ==
    /\ pc = "db" /\ calls < MaxCalls
    /\ \E x \in FilePhys :
          /\ Returned(open_records_file(Threaded, "file", x), "open_records_file", x)
          /\ UNCHANGED root

NextDb == OpenRootProject \/ OpenFileItem \/ OpenRecordsFile

SpecDb == InitDb /\ [][NextDb]_vars

\* the branch-parent chain of file x, followed through the headers on disk,
\* comes back to a file it already passed
RECURSIVE ChainLoops(_, _)
ChainLoops(x, seen) ==
    IF disk[x].branch_file = "" THEN FALSE
    ELSE IF disk[x].branch_file \in seen \cup {x} THEN TRUE
    ELSE ChainLoops(disk[x].branch_file, seen \cup {x})

NoCycle == \A x \in FilePhys : ~ChainLoops(x, {})
NothingLost ==
    \A x \in Phys : /\ disk[x].present = BranchedRepository[x].present
                    /\ disk[x].data_present = BranchedRepository[x].data_present

\* the file items whose constructor has returned
FileItems == {i \in 1..Len(items) : ~items[i].is_project}

\* every loaded file item file answers get_revision(n) with its own revision
\* n from first_revision on, and with its branch parent's answer below
ResolvesOwnAndParent ==
    \A f \in 1..Len(objects) :
        (objects[f].cls = "file" /\ objects[f].loaded)
           => \A n \in 1..objects[f].num_revisions :
                 IF n >= objects[f].first_revision
                 THEN /\ get_revision(objects, f, n).file = f
                      /\ RevOf(objects, get_revision(objects, f, n)).revision_num = n
                 ELSE /\ objects[f].branch_parent \in 1..Len(objects)
                      /\ get_revision(objects, f, n)
                           = get_revision(objects, objects[f].branch_parent, n)

\* C7: a file missing on disk below the root (an item file, a payload file,
\* a project's child-entry file) never aborts the load of the project tree:
\* no exception reaches the caller of open_root_project, and the root has
\* one item for each entry of its entry file.
C7_MissingFileNeverAborts ==
    (result.op = "open_root_project" /\ NoCycle)
        => /\ result.exc = ""
           /\ Len(items[result.ret].items_array) = Len(disk[RootProjectFile].entries)
           /\ \A k \in 1..Len(items[result.ret].items_array) :
                 items[result.ret].items_array[k] # None

\* C8: for a loaded file item file F and 1 <= n <= num_revisions,
\* get_revision(n) is F's own revision numbered n when n >= first_revision
\* and the branch parent's get_revision(n) below it; and a file whose
\* branch-parent file is absent from the database is still loaded.
C8_BranchParentResolution ==
    /\ ResolvesOwnAndParent
    /\ \A i \in FileItems :
          LET x == items[i].physical_name
          IN  (/\ NoCycle
               /\ disk[x].present /\ disk[x].data_present
               /\ disk[x].branch_file # ""
               /\ ~disk[disk[x].branch_file].present)
                 => items[i].item_file # None

\* C9: when the branch-parent chain of a file leads back to a file that is
\* still being loaded, the file is loaded all the same, with the parent
\* unresolved: get_revision(n) is None for every n below first_revision.
C9_CycleStillLoads ==
    \A i \in FileItems :
        (NothingLost /\ ChainLoops(items[i].physical_name, {}))
           => /\ items[i].item_file # None
              /\ \A n \in 1..(objects[items[i].item_file].first_revision - 1) :
                    get_revision(objects, items[i].item_file, n) = NoRev

\* C10: at most one record-file object is ever constructed per physical
\* name; a loaded slot holds the object of its name, a later
\* open_records_file returns the object of the slot, and all the items of
\* one physical name that have an item file have the same one.
C10_OneItemFilePerPhysicalName ==
    /\ \A f, g \in 1..Len(objects) : objects[f].filename = objects[g].filename => f = g
    /\ \A n \in DOMAIN record_files_by_physical :
          record_files_by_physical[n] \in 1..Len(objects)
             => /\ objects[record_files_by_physical[n]].filename = n
                /\ objects[record_files_by_physical[n]].loaded
    /\ (result.op = "open_records_file" /\ result.exc = "")
          => result.ret = record_files_by_physical[result.arg]
    /\ \A i, j \in 1..Len(items) :
          (/\ items[i].physical_name = items[j].physical_name
           /\ items[i].item_file # None /\ items[j].item_file # None)
             => items[i].item_file = items[j].item_file

\* three handles of one shared file come from three calls, and the last
\* call was an open_records_file of a name loaded before
C10_Witness ==
    /\ calls = 3
    /\ result.op = "open_records_file" /\ result.exc = ""
    /\ \E i, j \in 1..Len(items) :
          /\ i # j
          /\ items[i].physical_name = result.arg
          /\ items[j].physical_name = result.arg
          /\ items[i].item_file = result.ret
          /\ items[j].item_file = result.ret

----------------------------------------------------------------------------
(* SpecWalk: a repository gets a history, is loaded, walked back, built    *)
(* and replayed                                                            *)

\* the number of operations the history adds to the base repository
MaxOps == 4

InitWalk ==
    /\ pc = "ops"
    /\ action_list = <<>>
    /\ changeset_list = None
    /\ fold_i = 0
    /\ disk = BaseRepository
    /\ now = 4
    /\ record_files_by_physical = [n \in Phys \cup DataFiles |-> None]
    /\ objects = <<>>
    /\ items = <<>>
    /\ root = None
    /\ calls = 0
    /\ result = [exc |-> "", tree |-> {}]
    /\ sink = None

\* one more operation of VSS at the time now + 1
Operated(dsk) ==
    /\ disk' = dsk
    /\ now' = now + 1
    /\ calls' = calls + 1
    /\ UNCHANGED <<pc, buildVars, dbVars, result, sink>>

\* the entry of file or project x in the live project p is active
ActiveIn(p, x) == Live(disk, p) /\ HasEntry(disk, p, x) /\ ~EntryOf(disk, p, x).deleted

Checkin ==
    /\ pc = "ops" /\ calls < MaxOps
    /\ \E x \in FilePhys :
          /\ \E p \in ProjectPhys : ActiveIn(p, x) /\ EntryOf(disk, p, x).pinned_version = 0
          /\ Operated(DoCheckin(disk, now + 1, x))

Rename ==
    /\ pc = "ops" /\ calls < MaxOps
    /\ \E x \in Phys \ {RootProjectFile} :
       \E n \in (IF x \in ProjectPhys THEN ProjectNames ELSE FileNames) :
          /\ \E p \in ProjectPhys : ActiveIn(p, x)
          /\ \A p \in Holders(disk, x) :
                \A i \in 1..Len(disk[p].entries) : disk[p].entries[i].name # n
          /\ Operated(DoRename(disk, now + 1, x, n))

Delete ==
    /\ pc = "ops" /\ calls < MaxOps
    /\ \E p \in ProjectPhys, x \in Phys :
          /\ ActiveIn(p, x)
          /\ Operated(DoDelete(disk, now + 1, p, x))

Recover ==
    /\ pc = "ops" /\ calls < MaxOps
    /\ \E p \in ProjectPhys, x \in Phys :
          /\ Live(disk, p) /\ HasEntry(disk, p, x) /\ EntryOf(disk, p, x).deleted
          /\ EntryOf(disk, p, x).name \notin ActiveNames(disk, p)
          /\ Operated(DoRecover(disk, now + 1, p, x))

Pin ==
    /\ pc = "ops" /\ calls < MaxOps
    /\ \E p \in ProjectPhys, x \in FilePhys :
          /\ ActiveIn(p, x) /\ EntryOf(disk, p, x).pinned_version = 0
          /\ Operated(DoPin(disk, now + 1, p, x))

Unpin ==
    /\ pc = "ops" /\ calls < MaxOps
    /\ \E p \in ProjectPhys, x \in FilePhys :
          /\ ActiveIn(p, x) /\ EntryOf(disk, p, x).pinned_version # 0
          /\ Operated(DoUnpin(disk, now + 1, p, x))

Destroy ==
    /\ pc = "ops" /\ calls < MaxOps
    /\ \E p \in ProjectPhys, x \in Phys :
          /\ Live(disk, p) /\ HasEntry(disk, p, x)
          /\ Operated(DoDestroy(disk, now + 1, p, x))

\* what a call on the cursors leaves behind
Walked(w) ==
    /\ record_files_by_physical' = w.cache
    /\ objects' = w.objects
    /\ items' = w.items

\* vss_changeset_history.__init__: open_root_project with the cursor class
Load ==
    /\ pc = "ops"
    /\ \E w \in {vss_project_init(Threaded, TRUE, RootProjectFile, RootProjectName, FALSE)} :
          /\ Walked(w)
          /\ IF w.exc = ""
             THEN /\ root' = w.ret
                  /\ result' = [exc |-> "", tree |-> LoadedTree(w, w.ret)]
                  /\ pc' = "walk"
             ELSE /\ root' = root
                  /\ result' = [result EXCEPT !.exc = w.exc]
                  /\ pc' = "failed"
    /\ UNCHANGED <<buildVars, diskVars, calls, sink>>

\* build, lines 293-294: one more action comes out of the root cursor; id is
\* its place in the merge order.  An action that is None makes the sort
\* raise (None has no timestamp): the build ends with it
Walk ==
    /\ pc = "walk"
    /\ get_next_revision_timestamp(Threaded, root) # None
    /\ \E w \in {get_next_revision_action(Threaded, root, <<>>)} :
          /\ Walked(w)
          /\ IF w.exc = "" /\ w.act # NoAction
             THEN /\ action_list' = Append(action_list,
                                        [w.act EXCEPT !.id = Len(action_list) + 1])
                  /\ UNCHANGED <<pc, result>>
             ELSE /\ pc' = "failed"
                  /\ result' = [result EXCEPT !.exc =
                                    IF w.exc = "" THEN "AttributeError" ELSE w.exc]
                  /\ UNCHANGED action_list
    /\ UNCHANGED <<changeset_list, fold_i, diskVars, root, calls, sink>>

\* build, lines 296-298 once the root cursor is drained
SortWalked ==
    /\ pc = "walk"
    /\ get_next_revision_timestamp(Threaded, root) = None
    /\ action_list' = SortActions(action_list)
    /\ changeset_list' = <<>>
    /\ fold_i' = 1
    /\ pc' = "fold"
    /\ UNCHANGED <<diskVars, dbVars, calls, result, sink>>

\* the changesets of get_changelist are replayed on an empty sink
Replay ==
    /\ pc = "done"
    /\ sink' = ReplayChangesets({}, changeset_list)
    /\ pc' = "replayed"
    /\ UNCHANGED <<buildVars, diskVars, dbVars, calls, result>>

NextWalk ==
    \/ Checkin \/ Rename \/ Delete \/ Recover \/ Pin \/ Unpin \/ Destroy
    \/ Load \/ Walk \/ SortWalked \/ Fold \/ Replay

SpecWalk == InitWalk /\ [][NextWalk]_vars

----------------------------------------------------------------------------
(* Claims on the walk *)

ContentOf(x) == {Content(x, n) : n \in 1..NumRevisions(disk[x])}

\* the times at which project p pinned file x, and at which it unpinned it
PinTimes(p, x) ==
    {disk[p].revisions[i].timestamp :
        i \in {j \in 1..Len(disk[p].revisions) :
                  /\ disk[p].revisions[j].action = "ShareFile"
                  /\ disk[p].revisions[j].physical = x
                  /\ disk[p].revisions[j].unpinned_revision = 0}}
UnpinTimes(p, x) ==
    {disk[p].revisions[i].timestamp :
        i \in {j \in 1..Len(disk[p].revisions) :
                  /\ disk[p].revisions[j].action = "ShareFile"
                  /\ disk[p].revisions[j].physical = x
                  /\ disk[p].revisions[j].unpinned_revision > 0}}

\* file x is pinned in project p at time t: a pin came before t and no
\* unpin came between the two
PinnedAt(p, x, t) ==
    \E tp \in PinTimes(p, x) :
        /\ tp < t
        /\ ~\E tu \in UnpinTimes(p, x) : tp < tu /\ tu < t

\* the path of an action lies in project p: straight below the root for the
\* root, one level down for the other project
LiesIn(a, p) == Len(a.pathname) = (IF p = RootProjectFile THEN 2 ELSE 3)

NamedKinds ==
    {"AddProject", "AddFile", "DeleteProject", "DeleteFile", "RecoverProject",
     "RecoverFile", "DestroyProject", "DestroyFile", "RenameProject", "RenameFile",
     "Share", "Pin", "Unpin"}

\* the backward apply of action a found its child without an item file: the
\* file of the child is not in the database
FoundMissing(a) ==
    /\ a.kind \in NamedKinds
    /\ ~disk[a.physical_name].present

----------------------------------------------------------------------------
(* SpecAppend: the actions of one changeset arrive with their comments     *)

\* longest comment
MaxCommentLen == 4
\* longest label comment
MaxLabelLen == 1
\* actions of the changeset
MaxAppends == 2

\* the strings of at most n characters
RECURSIVE Strings(_)
Strings(n) ==
    IF n = 0 THEN {<<>>}
    ELSE Strings(n - 1) \cup {Append(s, c) : s \in {t \in Strings(n - 1) : Len(t) = n - 1},
                                             c \in Chars}

InitAppend ==
    /\ pc = "append"
    /\ action_list = <<>>
    /\ changeset_list = <<NewChange>>
    /\ fold_i = 0
    /\ disk = None /\ now = 0
    /\ record_files_by_physical = None /\ objects = <<>> /\ items = <<>> /\ root = None
    /\ calls = 0 /\ result = None /\ sink = None

\* build, line 303: change.append(action) for one more action of the
\* changeset that is open
AppendAction ==
    /\ pc = "append"
    /\ Len(changeset_list[1].action_list) < MaxAppends
    /\ \E comment \in Strings(MaxCommentLen), label_comment \in Strings(MaxLabelLen) :
         changeset_list' =
            <<ChangeAppend(changeset_list[1],
                           [id |-> Len(changeset_list[1].action_list) + 1,
                            timestamp |-> 1, author |-> 1,
                            comment |-> comment, label_comment |-> label_comment])>>
    /\ UNCHANGED <<pc, action_list, fold_i, diskVars, dbVars, calls, result, sink>>

NextAppend == AppendAction

SpecAppend == InitAppend /\ [][NextAppend]_vars

----------------------------------------------------------------------------
(* Claims on the comment list *)

\* the comments and label comments of a changeset's actions
Sources(change) ==
    {change.action_list[i].comment : i \in 1..Len(change.action_list)}
    \cup {change.action_list[i].label_comment : i \in 1..Len(change.action_list)}

\* s with each line separator ("\r\n", "\r" or "\n") turned into one "\n"
RECURSIVE EachSeparatorToLF(_)
EachSeparatorToLF(s) ==
    IF s = <<>> THEN <<>>
    ELSE IF Len(s) >= 2 /\ s[1] = CR /\ s[2] = LF
         THEN <<LF>> \o EachSeparatorToLF(SubSeq(s, 3, Len(s)))
    ELSE IF Head(s) = CR THEN <<LF>> \o EachSeparatorToLF(Tail(s))
    ELSE <<Head(s)>> \o EachSeparatorToLF(Tail(s))

\* the entry the normalisation as described makes of a comment: separators
\* to "\n" one by one, runs of three or more "\n" collapsed to two, trimmed
DescribedEntry(s) == sub_newlines(strip(EachSeparatorToLF(s)))

\* two comments that differ in their line separators only
SameButSeparators(x, y) == EachSeparatorToLF(x) = EachSeparatorToLF(y)

HasReturn(s) == \E i \in 1..Len(s) : s[i] = CR
HasThreeNewlines(s) == \E i \in 1..(Len(s) - 2) : s[i] = LF /\ s[i + 1] = LF /\ s[i + 2] = LF

\* C11: a changeset's comment list holds no string twice, no empty string,
\* no "\r" and no run of three or more "\n"; and two non-empty comments of
\* the changeset that differ in their line separators only give exactly one
\* entry, the one in which each separator has become one "\n".
C11_CommentList ==
    \A k \in 1..Len(changeset_list) :
        /\ \A i, j \in 1..Len(changeset_list[k].comments) :
             i # j => changeset_list[k].comments[i] # changeset_list[k].comments[j]
        /\ \A i \in 1..Len(changeset_list[k].comments) :
             /\ changeset_list[k].comments[i] # <<>>
             /\ ~HasReturn(changeset_list[k].comments[i])
             /\ ~HasThreeNewlines(changeset_list[k].comments[i])
        /\ \A x, y \in Sources(changeset_list[k]) :
             (x # <<>> /\ y # <<>> /\ SameButSeparators(x, y) /\ DescribedEntry(x) # <<>>)
             => Cardinality({i \in 1..Len(changeset_list[k].comments) :
                               changeset_list[k].comments[i]
                               \in {normalize_comment(x), normalize_comment(y)}}) = 1
                /\ \E i \in 1..Len(changeset_list[k].comments) :
                     changeset_list[k].comments[i] = DescribedEntry(x)

----------------------------------------------------------------------------
(* SpecNested: the same run on a repository with a project in a project    *)

InitNested ==
    /\ pc = "ops"
    /\ action_list = <<>>
    /\ changeset_list = None
    /\ fold_i = 0
    /\ disk = NestedRepository
    /\ now = 6
    /\ record_files_by_physical = [n \in Phys \cup DataFiles |-> None]
    /\ objects = <<>>
    /\ items = <<>>
    /\ root = None
    /\ calls = 1
    /\ result = [exc |-> "", tree |-> {}]
    /\ sink = None

SpecNested == InitNested /\ [][NextWalk]_vars

----------------------------------------------------------------------------
(* Claims on the emit of RecoverProject *)

\* the action the root cursor returned last
LastAction == action_list[Len(action_list)]

\* the item is in the tree below the root cursor
RECURSIVE Attached(_)
Attached(h) ==
    \/ h = root
    \/ /\ items[h].parent # None
       /\ \E i \in 1..Len(items[items[h].parent].items_array) :
             items[items[h].parent].items_array[i] = h
       /\ Attached(items[h].parent)

\* the children of project h that are not deleted, in ascending name order
RECURSIVE ByName(_)
ByName(hs) ==
    IF hs = {} THEN <<>>
    ELSE Bind(CHOOSE h \in hs : \A g \in hs : NameRank(items[h].logical_name)
                                              <= NameRank(items[g].logical_name),
              LAMBDA h : <<h>> \o ByName(hs \ {h}))

ActiveChildren(h) ==
    {c \in {items[h].items_array[i] : i \in 1..Len(items[h].items_array)} : ~items[c].deleted}

\* project h and what is below it, every directory before its descendants,
\* siblings by name, nothing of a deleted child
RECURSIVE DepthFirst(_)
RECURSIVE DepthFirstOf(_, _)
DepthFirstOf(cs, k) ==
    IF k > Len(cs) THEN <<>>
    ELSE (IF items[cs[k]].is_project THEN DepthFirst(cs[k])
          ELSE <<[op |-> "create_file", path |-> make_full_path([items |-> items], cs[k])]>>)
         \o DepthFirstOf(cs, k + 1)

DepthFirst(h) ==
    <<[op |-> "create_directory", path |-> make_full_path([items |-> items], h)]>>
        \o DepthFirstOf(ByName(ActiveChildren(h)), 1)

\* the calls of an action's forward emit, without the data
Emitted(a) ==
    [i \in 1..Len(perform_revision_action(a)) |->
        [op |-> perform_revision_action(a)[i].op, path |-> perform_revision_action(a)[i].path]]

\* the RecoverProject action that was just applied backwards, and its item
JustRecovered(h) ==
    /\ pc = "walk" /\ action_list # <<>>
    /\ LastAction.kind = "RecoverProject"
    /\ Attached(h)
    /\ items[h].is_project
    /\ make_full_path([items |-> items], h) = LastAction.pathname
    /\ items[h].physical_name = LastAction.physical_name

----------------------------------------------------------------------------
(* SpecReader: calls on the reader of a file and on its clones             *)

\* the size of the file
MaxData == 44
\* the offsets and lengths of the calls are -MaxBack..MaxArg
MaxBack == 2
MaxArg == 2
\* calls made, and readers there are
MaxReads == 3
MaxReaders == 2

Args == (0 - MaxBack)..MaxArg

NoCall ==
    [op |-> "", reader |-> 0, before |-> None, pos |-> 0, size |-> 0,
     unaligned |-> FALSE, exc |-> "", ret |-> {}, made |-> 0]

\* vss_record_file.__init__, line 29: the reader of the whole file
InitReader ==
    /\ pc = "read"
    /\ action_list = <<>> /\ changeset_list = None /\ fold_i = 0
    /\ disk = [size |-> MaxData] /\ now = 0
    /\ record_files_by_physical = None
    /\ objects = <<vss_record_reader_init(MaxData, -1, 0).self>>
    /\ items = <<>> /\ root = None
    /\ calls = 0 /\ result = NoCall /\ sink = None

\* reader r was called: op read size bytes at pos of its view
Called(op, r, pos, size, unaligned, out) ==
    /\ objects' = [objects EXCEPT ![r] = out.self]
    /\ result' = [op |-> op, reader |-> r, before |-> objects[r], pos |-> pos,
                  size |-> size, unaligned |-> unaligned, exc |-> out.exc,
                  ret |-> out.ret, made |-> 0]
    /\ calls' = calls + 1
    /\ UNCHANGED <<pc, buildVars, diskVars, record_files_by_physical, items, root, sink>>

ReadBytes ==
    /\ pc = "read" /\ calls < MaxReads
    /\ \E r \in 1..Len(objects), length \in Args :
          Called("read_bytes", r, objects[r].offset, length, TRUE,
                 read_bytes(objects[r], length))

ReadBytesAt ==
    /\ pc = "read" /\ calls < MaxReads
    /\ \E r \in 1..Len(objects), offset \in Args, length \in Args :
          Called("read_bytes_at", r, offset, length, TRUE,
                 read_bytes_at(objects[r], offset, length))

ReadInt16 ==
    /\ pc = "read" /\ calls < MaxReads
    /\ \E r \in 1..Len(objects), unaligned \in BOOLEAN :
          Called("read_int16", r, objects[r].offset, 2, unaligned,
                 read_int16(objects[r], unaligned))

ReadInt16At ==
    /\ pc = "read" /\ calls < MaxReads
    /\ \E r \in 1..Len(objects), offset \in Args, unaligned \in BOOLEAN :
          Called("read_int16_at", r, offset, 2, unaligned,
                 read_int16_at(objects[r], offset, unaligned))

ReadInt32 ==
    /\ pc = "read" /\ calls < MaxReads
    /\ \E r \in 1..Len(objects), unaligned \in BOOLEAN :
          Called("read_int32", r, objects[r].offset, 4, unaligned,
                 read_int32(objects[r], unaligned))

ReadInt32At ==
    /\ pc = "read" /\ calls < MaxReads
    /\ \E r \in 1..Len(objects), offset \in Args, unaligned \in BOOLEAN :
          Called("read_int32_at", r, offset, 4, unaligned,
                 read_int32_at(objects[r], offset, unaligned))

Skip ==
    /\ pc = "read" /\ calls < MaxReads
    /\ \E r \in 1..Len(objects), skip_bytes \in Args :
          Called("skip", r, objects[r].offset, skip_bytes, TRUE,
                 skip(objects[r], skip_bytes))

ReadByteString ==
    /\ pc = "read" /\ calls < MaxReads
    /\ \E r \in 1..Len(objects), length \in Args :
          Called("read_byte_string", r, objects[r].offset,
                 IF length < 0 THEN remaining(objects[r]) ELSE length, TRUE,
                 read_byte_string(objects[r], length))

ReadByteStringAt ==
    /\ pc = "read" /\ calls < MaxReads
    /\ \E r \in 1..Len(objects), offset \in Args, length \in Args :
          Called("read_byte_string_at", r, offset,
                 IF length < 0 THEN objects[r].length - offset ELSE length, TRUE,
                 read_byte_string_at(objects[r], offset, length))

ReadName ==
    /\ pc = "read" /\ calls < MaxReads
    /\ \E r \in 1..Len(objects) :
          Called("read_name", r, objects[r].offset, NameSize, TRUE, read_name(objects[r]))

\* a clone of reader r; the new reader is kept when the call made one
Clone ==
    /\ pc = "read" /\ calls < MaxReads /\ Len(objects) < MaxReaders
    /\ \E r \in 1..Len(objects), additional_offset \in Args,
          length \in {<<>>} \cup {<<n>> : n \in Args} :
          \E out \in {clone(objects[r], additional_offset, length)} :
             /\ objects' = IF out.exc = "" THEN Append(objects, out.self) ELSE objects
             /\ result' = [op |-> "clone", reader |-> r, before |-> objects[r],
                           pos |-> additional_offset,
                           size |-> IF length = <<>> THEN 0 ELSE length[1],
                           unaligned |-> TRUE, exc |-> out.exc, ret |-> {},
                           made |-> IF out.exc = "" THEN Len(objects) + 1 ELSE 0]
             /\ calls' = calls + 1
    /\ UNCHANGED <<pc, buildVars, diskVars, record_files_by_physical, items, root, sink>>

NextReader ==
    \/ ReadBytes \/ ReadBytesAt \/ ReadInt16 \/ ReadInt16At \/ ReadInt32 \/ ReadInt32At
    \/ Skip \/ ReadByteString \/ ReadByteStringAt \/ ReadName \/ Clone

SpecReader == InitReader /\ [][NextReader]_vars

----------------------------------------------------------------------------
(* Claims on the reader *)

\* the bytes of the file that lie in the view of a reader
ViewOf(self) ==
    {i \in 0..(self.data_len - 1) :
        self.slice_offset <= i /\ i < self.slice_offset + self.length}

AdvancingReads ==
    {"read_bytes", "read_int16", "read_int32", "read_byte_string", "read_name", "skip"}
PeekReads == {"read_bytes_at", "read_int16_at", "read_int32_at", "read_byte_string_at"}

\* the view of the reader a clone made lies wholly inside its parent's view
CloneInsideParent ==
    /\ result.made # 0
    /\ objects[result.made].length >= 0
    /\ objects[result.made].slice_offset >= result.before.slice_offset
    /\ objects[result.made].slice_offset + objects[result.made].length
       <= result.before.slice_offset + result.before.length

\* C13: a reader never returns bytes outside its view: an advancing read
\* with offset + size > length fails with EndOfBuffer and leaves offset as it
\* was, a successful advancing read adds exactly the size read to offset,
\* the peek forms leave offset as it was, and clone fails with EndOfBuffer
\* unless the new view lies wholly inside the parent's view.
C13_ReaderStaysInView ==
    result.op # "" =>
        /\ result.ret \subseteq ViewOf(result.before)
        /\ (result.op \in AdvancingReads
            /\ result.before.offset + result.size > result.before.length)
           => /\ result.exc = EndOfBufferException
              /\ objects[result.reader].offset = result.before.offset
        /\ (result.op \in AdvancingReads /\ result.exc = "")
           => objects[result.reader].offset = result.before.offset + result.size
        /\ result.op \in PeekReads
           => objects[result.reader].offset = result.before.offset
        /\ result.op = "clone"
           => (result.exc = EndOfBufferException \/ CloneInsideParent)

\* the position of the view the last call read at is a multiple of n
ReadAtMultipleOf(n) == result.pos % n = 0

\* C14: without unaligned, a 16-bit read (read_int16 and its peek form)
\* fails with UnalignedRead unless the position read is even, and a 32-bit
\* read (read_int32 and its peek form) fails with UnalignedRead unless the
\* position read is a multiple of 4; with unaligned no read fails for
\* alignment.
C14_AlignedReads ==
    /\ (result.op \in {"read_int16", "read_int16_at"} /\ ~result.unaligned)
       => (result.exc = UnalignedReadException <=> ~ReadAtMultipleOf(2))
    /\ (result.op \in {"read_int32", "read_int32_at"} /\ ~result.unaligned)
       => (result.exc = UnalignedReadException <=> ~ReadAtMultipleOf(4))
    /\ result.unaligned => result.exc # UnalignedReadException

----------------------------------------------------------------------------
(* SpecRecords: read_all_records over a file of records                    *)

\* records in a file
MaxRecords == 2

\* the payloads a record of the file can have: a comment, a branch record
\* (prev_branch_offset and branch_file), a short one and none
Payloads ==
    {<<>>, <<97>>, <<97, 10>>,
     <<1, 0, 0, 0, 65, 65, 65, 65, 65, 65, 65, 65, 0, 0, 0, 0>>}

\* CRC-32 bit by bit (reflected, polynomial 0xEDB88320, no initial or final
\* inversion): the remainder after the bytes of s
RECURSIVE BitRounds(_, _)
BitRounds(v, j) ==
    IF j = 0 THEN v
    ELSE BitRounds(IF v[2] % 2 = 1 THEN Xor32(ShiftRight1(v), POLY) ELSE ShiftRight1(v), j - 1)

RECURSIVE Crc32Of(_, _)
Crc32Of(s, crc) ==
    IF s = <<>> THEN crc
    ELSE Bind(BitRounds(<<crc[1], Xor(crc[2], Head(s))>>, 8),
              LAMBDA v : Crc32Of(Tail(s), v))

\* the CRC-16 of a payload: the low 16 bits of its CRC-32 XOR the high 16
Crc16Of(s) == Xor(Crc32Of(s, <<0, 0>>)[2], Crc32Of(s, <<0, 0>>)[1])

\* the bytes of n, low byte first
RECURSIVE to_bytes(_, _)
to_bytes(n, size) == IF size = 0 THEN <<>> ELSE <<n % 256>> \o to_bytes(n \div 256, size - 1)

\* a record as it is written: the stored length is the payload's, or one
\* more (the record is cut short); the stored CRC is the payload's or not
WrittenRecords ==
    {[signature |-> sig, payload |-> p, file_crc |-> crc, length |-> Len(p) + cut]
        : sig \in {SignatureMC, SignatureBF, SignatureZZ}, p \in Payloads,
          crc \in {0, 1, 65535} \cup {Crc16Of(q) : q \in Payloads}, cut \in {0, 1}}

RecordBytes(r) ==
    to_bytes(r.length, 4) \o r.signature \o to_bytes(r.file_crc, 2) \o r.payload

\* the offset at which record k of the written records starts
RECURSIVE OffsetOf(_, _)
OffsetOf(rs, k) ==
    IF k = 1 THEN 0 ELSE OffsetOf(rs, k - 1) + HeaderLength + Len(rs[k - 1].payload)

\* an empty file, to which records are written
InitRecords ==
    /\ pc = "write"
    /\ action_list = <<>> /\ changeset_list = None /\ fold_i = 0
    /\ disk = [written |-> <<>>, data |-> <<>>]
    /\ now = 0
    /\ record_files_by_physical = None
    /\ objects = <<>>
    /\ items = <<>> /\ root = None /\ calls = 0 /\ sink = None
    /\ result = [offset |-> 0, ignore_unknown |-> FALSE, exc |-> "",
                 read_at |-> -1, record |-> NoRecord]

\* one more record goes to the end of the file; only the last can be cut
WriteRecord ==
    /\ pc = "write"
    /\ Len(disk.written) < MaxRecords
    /\ \A k \in 1..Len(disk.written) : disk.written[k].length = Len(disk.written[k].payload)
    /\ \E r \in WrittenRecords :
          disk' = [written |-> Append(disk.written, r), data |-> disk.data \o RecordBytes(r)]
    /\ UNCHANGED <<pc, buildVars, now, dbVars, calls, result, sink>>

\* vss_record_file.__init__, and the start of read_all_records (offset =
\* reader.offset, last_offset = file_size)
OpenRecordFile ==
    /\ pc = "write"
    /\ disk.written # <<>>
    /\ objects' = <<[reader |-> vss_record_reader_init(Len(disk.data), -1, 0).self,
                     records |-> {}]>>
    /\ \E ignore_unknown \in BOOLEAN :
          result' = [result EXCEPT !.ignore_unknown = ignore_unknown]
    /\ pc' = "records"
    /\ UNCHANGED <<buildVars, diskVars, record_files_by_physical, items, root, calls, sink>>

\* read_all_records, lines 71-80: one turn of the loop
ReadRecord ==
    /\ pc = "records"
    /\ result.offset + HeaderLength <= Len(disk.data)
    /\ \E r \in {read_record(objects[1], disk.data, result.offset, result.ignore_unknown)} :
          /\ objects' = <<[reader |-> r.file.reader,
                           records |-> IF r.exc = "" /\ r.record.class # ""
                                       THEN objects[1].records \cup {r.record}
                                       ELSE objects[1].records]>>
          /\ result' = [result EXCEPT !.offset = r.file.reader.offset, !.exc = r.exc,
                                      !.read_at = result.offset, !.record = r.record]
          /\ pc' = IF r.exc = "" THEN "records" ELSE "failed"
    /\ UNCHANGED <<buildVars, diskVars, record_files_by_physical, items, root, calls, sink>>

\* read_all_records, line 81: the loop is over
ReturnRecords ==
    /\ pc = "records"
    /\ result.offset + HeaderLength > Len(disk.data)
    /\ pc' = "done"
    /\ UNCHANGED <<buildVars, diskVars, dbVars, calls, result, sink>>

NextRecords == WriteRecord \/ OpenRecordFile \/ ReadRecord \/ ReturnRecords

SpecRecords == InitRecords /\ [][NextRecords]_vars

----------------------------------------------------------------------------
(* Claims on read_record *)

\* the written record that starts at the offset read_record was called for
JustRead(k) ==
    /\ k \in 1..Len(disk.written)
    /\ result.read_at = OffsetOf(disk.written, k)

\* the record is whole, and its stored CRC is not the CRC-16 of its payload
Whole(k) == disk.written[k].length = Len(disk.written[k].payload)
CrcDiffers(k) == disk.written[k].file_crc # Crc16Of(disk.written[k].payload)

\* C15: read_record rejects with RecordCrcMismatch every record whose
\* signature is not MC and whose stored CRC differs from the CRC-16 of its
\* payload (the low 16 bits of the CRC-32 XOR its high 16 bits), and no such
\* record is in the map from offsets to records; a record with the signature
\* MC is accepted whatever its stored CRC.
C15_CrcChecked ==
    pc # "write" => \A k \in 1..Len(disk.written) :
        /\ (Whole(k) /\ disk.written[k].signature # SignatureMC /\ CrcDiffers(k))
           => /\ JustRead(k) => result.exc = RecordCrcException
              /\ get_record(objects[1], OffsetOf(disk.written, k)).class = ""
        /\ (Whole(k) /\ disk.written[k].signature = SignatureMC /\ JustRead(k))
           => /\ result.exc = ""
              /\ get_record(objects[1], OffsetOf(disk.written, k)).class # ""

\* a comment record with a wrong CRC was accepted, and the record behind it,
\* not a comment, was rejected for its CRC
C15_Witness ==
    /\ pc # "write"
    /\ Len(disk.written) = 2
    /\ disk.written[1].signature = SignatureMC /\ CrcDiffers(1)
    /\ disk.written[1].payload # <<>>
    /\ get_record(objects[1], 0).class # ""
    /\ JustRead(2) /\ Whole(2) /\ CrcDiffers(2)
    /\ disk.written[2].signature = SignatureBF
    /\ Len(disk.written[2].payload) = 16
    /\ result.exc = RecordCrcException

----------------------------------------------------------------------------
(* Claims on the pending lists of the directory cursors *)

\* the directory cursors, and the children a directory cursor holds
Directories == {h \in 1..Len(items) : items[h].is_project}
ChildrenOf(h) ==
    {items[h].items_array[k] : k \in 1..Len(items[h].items_array)} \ {None}

\* the number of entries the pending list of h has for the cursor c
Entries(h, c) ==
    Cardinality({k \in 1..Len(items[h].pending_child_items) :
                    items[h].pending_child_items[k].item = c})

\* the revisions of the directory h that the walk has not handed out yet
RemainingRevisions(h) ==
    IF items[h].item_file = None \/ items[h].next_revision = NoRev THEN {}
    ELSE {r \in {objects[items[h].item_file].revisions[k] :
                        k \in 1..Len(objects[items[h].item_file].revisions)} :
             r.revision_num <= RevOf(objects, items[h].next_revision).revision_num}

\* at this point of the walk the child c is pinned in h: of the Pin and
\* Unpin revisions of c that h has yet to hand out, the last is a Pin
PinnedNow(h, c) ==
    \E r \in RemainingRevisions(h) :
        /\ r.physical = items[c].physical_name /\ create_share_action(r) = "Pin"
        /\ \A u \in RemainingRevisions(h) :
              (u.physical = items[c].physical_name
                  /\ create_share_action(u) \in {"Pin", "Unpin"})
              => u.revision_num <= r.revision_num

\* the child c of a directory has a next revision
NextRevisionOf(c) == get_next_revision_timestamp(Threaded, c) # None

----------------------------------------------------------------------------
(* SpecRestored: the walk over a repository with files restored from an    *)
(* archive, whose revisions are older than the project that holds them     *)

InitRestored ==
    /\ pc = "ops"
    /\ action_list = <<>>
    /\ changeset_list = None
    /\ fold_i = 0
    /\ disk = RestoredRepository
    /\ now = 7
    /\ record_files_by_physical = [n \in Phys \cup DataFiles |-> None]
    /\ objects = <<>>
    /\ items = <<>>
    /\ root = None
    /\ calls = 1
    /\ result = [exc |-> "", tree |-> {}]
    /\ sink = None

SpecRestored == InitRestored /\ [][NextWalk]_vars

\* the actions of the action list that lie inside the directory whose
\* CreateProject action is action_list[i]
InsideOf(i) ==
    {j \in 1..Len(action_list) :
        /\ Len(action_list[j].pathname) > Len(action_list[i].pathname)
        /\ Under(action_list[j].pathname, action_list[i].pathname)}

RECURSIVE TimestampsBelow(_, _)
TimestampsBelow(h, depth) ==
    {items[h].pending_child_items[k].timestamp : k \in 1..Len(items[h].pending_child_items)}
    \cup (IF depth = 0 THEN {}
          ELSE UNION {TimestampsBelow(items[h].pending_child_items[k].item, depth - 1) :
                        k \in {n \in 1..Len(items[h].pending_child_items) :
                                  items[h].pending_child_items[n].item # h}})

\* the pending list of h is sorted by ascending timestamp
PendingSorted(h) ==
    \A i, j \in 1..Len(items[h].pending_child_items) :
        i < j => items[h].pending_child_items[i].timestamp
                    <= items[h].pending_child_items[j].timestamp

Drained ==
    \/ pc = "walk" /\ get_next_revision_timestamp(Threaded, root) = None
    \/ pc \in {"fold", "done", "replayed"}

----------------------------------------------------------------------------
(* Claims on the backward applies of the project revisions *)

\* the children of the directory h, entry by entry, by logical and physical
\* name
LiveArray(h) ==
    [k \in 1..Len(items[h].items_array) |->
        <<items[items[h].items_array[k]].logical_name,
          items[items[h].items_array[k]].physical_name>>]

\* the items_array of the item file of h as it stood right after the forward
\* application of the revision that h hands out next
ForwardArray(h) ==
    Bind(build_project_revisions(
            SubSeq(objects[items[h].item_file].revisions, 1,
                   RevOf(objects, items[h].next_revision).revision_num)).arr,
         LAMBDA arr : [k \in 1..Len(arr) |-> <<arr[k].name, arr[k].physical_name>>])

Without(s, i) == SubSeq(s, 1, i) \o SubSeq(s, i + 2, Len(s))

\* the sequence s with e put at the Python index i
WithAt(s, i, e) == SubSeq(s, 1, i) \o <<e>> \o SubSeq(s, i + 1, Len(s))

\* the step of the walk hands out the Rename revision that is the next
\* revision of the directory h
RenameStepOf(h) ==
    /\ pc = "walk" /\ pc' = "walk"
    /\ Len(action_list') = Len(action_list) + 1
    /\ action_list'[Len(action_list')].kind \in {"RenameFile", "RenameProject"}
    /\ items[h].item_file # None /\ items[h].next_revision # NoRev
    /\ make_full_path(Threaded, h) = action_list'[Len(action_list')].base_path
    /\ RevOf(objects, items[h].next_revision).timestamp
          = action_list'[Len(action_list')].timestamp

\* the child that the Rename revision handed out by the step names
Renamed(h) == items[h].items_array[action_list'[Len(action_list')].item_index + 1]

\* the places of the cursor c in the pending list of h after the step
PlacesAfter(h, c) ==
    {k \in 1..Len(items'[h].pending_child_items) :
        items'[h].pending_child_items[k].item = c}

\* after the step the entry of c lies, among the entries of the children of
\* h with its timestamp, where its name puts it
PlacedByName(h, c) ==
    \A k \in PlacesAfter(h, c) : \A j \in 1..Len(items'[h].pending_child_items) :
        (/\ j # k
         /\ items'[h].pending_child_items[j].item # h
         /\ items'[h].pending_child_items[j].timestamp
               = items'[h].pending_child_items[k].timestamp)
        => (j < k <=> NameRank(items'[items'[h].pending_child_items[j].item].logical_name)
                        < NameRank(items'[c].logical_name))

\* the items_array and the name map of h after the backward Rename
RenameUndone(h, a, c) ==
    /\ items'[c].logical_name = a.original_name
    /\ items'[h].items_array = WithAt(Without(items[h].items_array, a.item_index),
                                      a.old_item_index, c)
    /\ ~items'[c].deleted =>
          /\ items'[h].items_by_logical_name[a.original_name] = c
          /\ items'[h].items_by_logical_name[a.logical_name] # c

\* the pending entry of the child after the backward Rename
RenameRequeued(h, c) ==
    (~items'[c].deleted /\ items'[c].item_file # None)
    => /\ Cardinality(PlacesAfter(h, c)) <= 1
       /\ PlacedByName(h, c)

----------------------------------------------------------------------------
(* Claims on the backward apply of Delete                                  *)

\* in the history on disk the child x of the project p is deleted at the
\* time t: a Delete of x in p is earlier than t and no Recover of x
\* that follows it in p is as early as t
DeletedAt(p, x, t) ==
    \E k \in 1..Len(disk[p].revisions) :
        /\ disk[p].revisions[k].action \in {"DeleteFile", "DeleteProject"}
        /\ disk[p].revisions[k].physical = x
        /\ disk[p].revisions[k].timestamp < t
        /\ \A j \in (k + 1)..Len(disk[p].revisions) :
              (/\ disk[p].revisions[j].action \in {"RecoverFile", "RecoverProject"}
               /\ disk[p].revisions[j].physical = x)
              => t < disk[p].revisions[j].timestamp

\* the step of the walk hands out a revision of a file, which is the child
\* c of the directory h
FileStepOf(h, c) ==
    /\ pc = "walk" /\ pc' = "walk"
    /\ Len(action_list') = Len(action_list) + 1
    /\ action_list'[Len(action_list')].kind \in {"CheckinFile", "CreateFile"}
    /\ Append(make_full_path(Threaded, h), items[c].logical_name)
          = action_list'[Len(action_list')].pathname
    /\ items[h].items_by_logical_name[items[c].logical_name] = c

\* SpecSkewed: the walk over a repository whose revisions were stamped by the
\* clocks of different clients.  The file a was added to the root by a
\* client whose clock is at 6; the other clients' clock is at 3
SkewedRepository ==
    DoAddFile(DoAddProject(NewRepository, 2, "BAAAAAAA", "p"),
              6, RootProjectFile, "CAAAAAAA", "a")

InitSkewed ==
    /\ pc = "ops"
    /\ action_list = <<>>
    /\ changeset_list = None
    /\ fold_i = 0
    /\ disk = SkewedRepository
    /\ now = 3
    /\ record_files_by_physical = [n \in Phys \cup DataFiles |-> None]
    /\ objects = <<>>
    /\ items = <<>>
    /\ root = None
    /\ calls = 1
    /\ result = [exc |-> "", tree |-> {}]
    /\ sink = None

SpecSkewed == InitSkewed /\ [][NextWalk]_vars

----------------------------------------------------------------------------
(* SpecItems: the items_array of a project item file under add_item,       *)
(* remove_item and find_item_index                                         *)

\* the items_array has at most MaxItems entries
MaxItems == 3

\* the full names that are looked up, added and removed: three names, each
\* of which three files can have
ItemNames ==
    {vss_full_name(n, x, FALSE) : n \in {"a", "b", "p"},
                                  x \in {"CAAAAAAA", "DAAAAAAA", "EAAAAAAA"}}

\* an item file without items; result is the last call and what it returned
InitItems ==
    /\ pc = "items"
    /\ action_list = <<>> /\ changeset_list = None /\ fold_i = 0
    /\ disk = None /\ now = 0
    /\ record_files_by_physical = None
    /\ objects = [items_array |-> <<>>]
    /\ items = <<>> /\ root = None /\ calls = 0 /\ sink = None
    /\ result = [op |-> "", full_name |-> vss_full_name("a", "CAAAAAAA", FALSE),
                 before |-> <<>>, idx |-> NoIndex]

ItemsUnchanged ==
    UNCHANGED <<pc, buildVars, diskVars, record_files_by_physical, items, root, calls, sink>>

\* vss_project_item_file.add_item
AddItem ==
    /\ pc = "items"
    /\ Len(objects.items_array) < MaxItems
    /\ \E full_name \in ItemNames : \E r \in {add_item(objects.items_array, full_name)} :
          /\ objects' = [items_array |-> r.arr]
          /\ result' = [op |-> "add_item", full_name |-> full_name,
                        before |-> objects.items_array, idx |-> r.idx]
    /\ ItemsUnchanged

\* vss_project_item_file.remove_item
RemoveItem ==
    /\ pc = "items"
    /\ \E full_name \in ItemNames : \E r \in {remove_item(objects.items_array, full_name)} :
          /\ objects' = [items_array |-> r.arr]
          /\ result' = [op |-> "remove_item", full_name |-> full_name,
                        before |-> objects.items_array, idx |-> r.idx]
    /\ ItemsUnchanged

\* vss_project_item_file.find_item_index
FindItemIndex ==
    /\ pc = "items"
    /\ \E full_name \in ItemNames :
          result' = [op |-> "find_item_index", full_name |-> full_name,
                     before |-> objects.items_array,
                     idx |-> find_item_index(objects.items_array, full_name)]
    /\ UNCHANGED objects
    /\ ItemsUnchanged

NextItems == AddItem \/ RemoveItem \/ FindItemIndex

SpecItems == InitItems /\ [][NextItems]_vars

----------------------------------------------------------------------------
(* Claims on find_item_index *)

\* the array is sorted by index_name
SortedByIndexName(arr) ==
    \A i, j \in 1..Len(arr) :
        i < j => NameRank(arr[i].index_name) <= NameRank(arr[j].index_name)

\* the Python indices of the entries of arr with the index name and the
\* physical name of full_name
Matches(arr, full_name) ==
    {k \in 0..(Len(arr) - 1) : /\ arr[k + 1].index_name = full_name.index_name
                               /\ arr[k + 1].physical_name = full_name.physical_name}

\* the lowest Python index such that every entry before it has a strictly
\* smaller index name
LeftEnd(arr, full_name) ==
    CHOOSE i \in 0..Len(arr) :
        /\ \A k \in 1..i : NameRank(arr[k].index_name) < NameRank(full_name.index_name)
        /\ i < Len(arr) =>
              NameRank(arr[i + 1].index_name) >= NameRank(full_name.index_name)

\* the least element of a set of numbers that is not empty
Least(S) == CHOOSE m \in S : \A k \in S : m <= k

\* C24: on a sorted items_array find_item_index returns the index of the
\* first entry of the run of equal index names that has the physical name
\* looked for, and the left end of the run when there is none; add_item
\* puts a new duplicate at the left end of its run, and the items_array
\* stays sorted by index name under add_item and remove_item.
C24_FindItemIndex ==
    pc = "items" =>
        /\ SortedByIndexName(objects.items_array)
        /\ result.op \in {"find_item_index", "add_item"} =>
              result.idx = IF Matches(result.before, result.full_name) # {}
                           THEN Least(Matches(result.before, result.full_name))
                           ELSE LeftEnd(result.before, result.full_name)
        /\ result.op = "add_item" =>
              objects.items_array = InsertAt(result.before, result.idx, result.full_name)

\* a file was added to the left of a run of two files of its name
C24_Witness ==
    /\ pc = "items" /\ result.op = "add_item"
    /\ Len(objects.items_array) = 3
    /\ \A k \in 1..3 : objects.items_array[k].index_name = result.full_name.index_name
    /\ Matches(result.before, result.full_name) = {}
    /\ objects.items_array[1] = result.full_name


----------------------------------------------------------------------------
(* SpecFileBuild: vss_file_item_file.build_revisions over the revision     *)
(* records of a file and the content of its data file                      *)

\* a file has at most MaxRevisions revision records of its own
MaxRevisions == 3

DeltaCommandWriteLog == 0
DeltaCommandWriteSuccessor == 1

\* a checkin record without a delta record (prev_delta_offset = 0)
NoDelta == <<[command |-> -1, offset |-> 0, length |-> 0, data |-> <<>>]>>

\* vss_delta_operation.apply
delta_operation_apply(op, base_data) ==
    IF op.command = DeltaCommandWriteLog THEN op.data
    ELSE SubSeq(base_data, op.offset + 1,
                IF op.offset + op.length > Len(base_data) THEN Len(base_data)
                ELSE op.offset + op.length)

\* vss_delta_record.apply_delta: the join of what the operations give
RECURSIVE apply_delta(_, _)
apply_delta(delta_operations, base_data) ==
    IF delta_operations = <<>> THEN <<>>
    ELSE delta_operation_apply(Head(delta_operations), base_data)
            \o apply_delta(Tail(delta_operations), base_data)

\* a set_revision_data that leaves the delta record aside
set_revision_data_without_delta(record, data) ==
    [revision_data |-> data, data |-> data]

\* set_revision_data of vss_revision and of vss_checkin_revision: the data
\* the revision keeps and the data it returns for the revision before it
set_revision_data(record, data) ==
    [revision_data |-> data,
     data |-> IF record.action = "CheckinFile" /\ record.delta # NoDelta
              THEN apply_delta(record.delta, data) ELSE data]

\* vss_file_item_file.build_revisions, the loop from the record at offset
\* (the place of the record among the file's own) down to the first
RECURSIVE build_file_revisions(_, _, _, _, _, _)
build_file_revisions(records, first_revision, offset, data, prev_data, revisions) ==
    IF offset = 0 THEN revisions
    ELSE Bind(IF offset + first_revision - 1 = 1 /\ Len(data) = 0 THEN prev_data ELSE data,
              LAMBDA data1 :
         Bind(set_revision_data(records[offset], data1), LAMBDA r :
            build_file_revisions(records, first_revision, offset - 1, r.data,
                IF ~(offset + first_revision - 1 = 1 /\ Len(data) = 0)
                      /\ records[offset].action = "CheckinFile"
                THEN data ELSE prev_data,
                [revisions EXCEPT ![offset] =
                    [revision_num |-> offset + first_revision - 1,
                     action |-> records[offset].action,
                     revision_data |-> r.revision_data]])))

\* the contents a file can have
Contents == {<<>>, <<1>>, <<1, 2>>}

\* the delta records of a checkin: none, one without operations (the older
\* content is empty), one that writes a byte of its own, one that keeps the
\* first byte of the newer content, and one that does both
Deltas ==
    {NoDelta, <<>>,
     <<[command |-> DeltaCommandWriteLog, offset |-> 0, length |-> 1, data |-> <<2>>]>>,
     <<[command |-> DeltaCommandWriteSuccessor, offset |-> 0, length |-> 1, data |-> <<>>]>>,
     <<[command |-> DeltaCommandWriteSuccessor, offset |-> 1, length |-> 2, data |-> <<>>],
       [command |-> DeltaCommandWriteLog, offset |-> 0, length |-> 1, data |-> <<1>>]>>}

\* the revision records after the first of a file
LaterRecords ==
    {[action |-> "Label", delta |-> NoDelta]}
    \cup {[action |-> "CheckinFile", delta |-> d] : d \in Deltas}

\* the revision records of a file: the first is its CreateFile, or the
\* CreateBranch of a branch, whose first_revision is 2
RecordsOf(first_revision) ==
    UNION {{<<[action |-> IF first_revision = 1 THEN "CreateFile" ELSE "CreateBranch",
               delta |-> NoDelta]>> \o s : s \in [1..n -> LaterRecords]}
           : n \in 0..(MaxRevisions - 1)}

\* a file on disk, not loaded yet
InitFileBuild ==
    /\ pc = "file"
    /\ action_list = <<>> /\ changeset_list = None /\ fold_i = 0
    /\ now = 0
    /\ record_files_by_physical = None
    /\ items = <<>> /\ root = None /\ calls = 0 /\ sink = None
    /\ result = [exc |-> ""]
    /\ objects = [revisions |-> <<>>]
    /\ \E first_revision \in {1, 2} : \E records \in RecordsOf(first_revision) :
       \E last_data \in Contents :
          disk = [first_revision |-> first_revision, records |-> records,
                  last_data |-> last_data]

\* vss_file_item_file.__init__, lines 428-435: build_revisions with the
\* content of the data file
BuildRevisions ==
    /\ pc = "file"
    /\ objects' = [revisions |->
                     build_file_revisions(disk.records, disk.first_revision,
                                          Len(disk.records), disk.last_data, disk.last_data,
                                          [k \in 1..Len(disk.records) |-> None])]
    /\ pc' = "built"
    /\ UNCHANGED <<buildVars, diskVars, record_files_by_physical, items, root, calls,
                   result, sink>>

SpecFileBuild == InitFileBuild /\ [][BuildRevisions]_vars

----------------------------------------------------------------------------
(* Claims on the contents of the revisions of a file *)

\* the content of the revision before the one at place k of the built file,
\* as the record at k gives it
Older(k) ==
    IF disk.records[k].action = "CheckinFile" /\ disk.records[k].delta # NoDelta
    THEN apply_delta(disk.records[k].delta, objects.revisions[k].revision_data)
    ELSE objects.revisions[k].revision_data

\* the first revision of the built file falls under the rule of the empty
\* first revision: it is revision 1 and the content reconstructed for it
\* is empty
EmptyFirst ==
    /\ disk.first_revision = 1
    /\ IF Len(disk.records) = 1 THEN disk.last_data = <<>> ELSE Older(2) = <<>>

\* C25: in a built file the latest revision has the content of the data
\* file, and the revision before a Checkin with a delta record has the
\* delta applied to the Checkin's content, the revision before any other
\* revision has that revision's content; but for a revision 1 that falls
\* under the rule of the empty first revision.
C25_RevisionData ==
    pc = "built" =>
        /\ objects.revisions[Len(disk.records)].revision_data = disk.last_data
        /\ \A k \in 2..Len(disk.records) :
              ~(k = 2 /\ EmptyFirst)
              => objects.revisions[k - 1].revision_data = Older(k)

\* a file of three revisions was built whose latest two are checkins with
\* deltas that change the content, and revision 1 is not empty
C25_Witness ==
    /\ pc = "built" /\ Len(disk.records) = 3 /\ ~EmptyFirst
    /\ \A k \in 2..3 : /\ disk.records[k].action = "CheckinFile"
                       /\ disk.records[k].delta # NoDelta
                       /\ Older(k) # objects.revisions[k].revision_data

\* C26: when the content reconstructed for revision 1 of a file is empty,
\* revision 1 has the content of revision 2, whatever revision 2 is; when
\* it is not empty, revision 1 keeps it.
C26_EmptyFirstRevision ==
    (pc = "built" /\ disk.first_revision = 1 /\ Len(disk.records) >= 2) =>
        objects.revisions[1].revision_data =
            IF EmptyFirst THEN objects.revisions[2].revision_data ELSE Older(2)


----------------------------------------------------------------------------
(* Claims on the order of the pending lists and on the name maps           *)

\* SpecRenamed: the walk over a repository with a renamed project.  The
\* project was added as a at the time 2; the files b and p were added to it
\* within the same second, at 3; b was checked in at 4, the project was
\* renamed to r at 5 and p was checked in at 6
RenamedRepository ==
    DoCheckin(DoRename(DoCheckin(DoAddFile(DoAddFile(
        DoAddProject(NewRepository, 2, "BAAAAAAA", "a"),
                                           3, "BAAAAAAA", "CAAAAAAA", "b"),
                                 3, "BAAAAAAA", "DAAAAAAA", "p"),
                       4, "CAAAAAAA"),
              5, "BAAAAAAA", "r"),
        6, "DAAAAAAA")

InitRenamed ==
    /\ pc = "ops"
    /\ action_list = <<>>
    /\ changeset_list = None
    /\ fold_i = 0
    /\ disk = RenamedRepository
    /\ now = 6
    /\ record_files_by_physical = [n \in Phys \cup DataFiles |-> None]
    /\ objects = <<>>
    /\ items = <<>>
    /\ root = None
    /\ calls = 2
    /\ result = [exc |-> "", tree |-> {}]
    /\ sink = None

SpecRenamed == InitRenamed /\ [][NextWalk]_vars

NameMap(h) == items[h].items_by_logical_name

----------------------------------------------------------------------------
(* SpecWalkFair: the loop of build goes on as long as it can               *)

SpecWalkFair == InitWalk /\ [][NextWalk]_vars /\ WF_vars(Walk \/ SortWalked)

\* the revisions that the cursor c of the sequence its has yet to hand out
Remaining(its, c) ==
    IF its[c].item_file = None \/ its[c].next_revision = NoRev THEN 0
    ELSE its[c].next_revision_num + 1

\* the call of the step consumed one revision of one of the cursors there
\* were, and none of another
OneRevisionConsumed ==
    \E c \in 1..Len(items) :
        /\ Remaining(items', c) = Remaining(items, c) - 1
        /\ \A d \in 1..Len(items) : d # c => Remaining(items', d) = Remaining(items, d)

----------------------------------------------------------------------------
(* Claims on the cache slots after a failed load                            *)

\* C30: a slot of record_files_by_physical holds the in-progress marker
\* NotImplemented only while the load of its physical name is executing:
\* once open_records_file (or a constructor that called it) has returned or
\* has failed, every slot is a loaded file or unloaded.
C30_MarkerOnlyWhileLoading ==
    \A n \in DOMAIN record_files_by_physical :
        record_files_by_physical[n] # NotImplemented

====
